---- MODULE Spec2Model ----
(***************************************************************************)
(* Model of the WhatsApp relay: the conversation table and its idle /      *)
(* closing life cycle (server.mjs), the webhook reply pipeline             *)
(* (server.mjs) and the reply composer generateAIResponse (gemini.mjs).    *)
(* Strings are TLA+ strings; Len, \o and SubSeq act on them as the         *)
(* JavaScript length, + and substring do.                                  *)
(***************************************************************************)
EXTENDS Integers, Sequences, FiniteSets, Bags, TLC

(***************************************************************************)
(* Bounds of the model.                                                    *)
(***************************************************************************)
\* the clock advances by SweepsPerTick sweep intervals at a time
SweepsPerTick == 15
\* number of clock steps explored
MaxTicks == 3
\* number of webhook requests explored while the clock runs
MaxInbound == 1
\* number of concurrent webhook requests explored at one instant
MaxWebhooks == 2
\* number of POST /api/send requests explored
MaxOperatorSends == 1
\* completion texts reach MaxOver characters beyond the reply cap
MaxOver == 2

Phones == {"p1"}

(***************************************************************************)
(* Program constants.                                                      *)
(***************************************************************************)
InactivityLimit == 15 * 60 * 1000
SweepInterval == 60 * 1000
ReplyCap == 1500
Ellipsis == "..."

AutomaticMessage == "Non scrivi da un po'. Se hai bisogno di assistenza, sono qui per aiutarti!"
ClosingMessage == "La conversazione e' stata chiusa per inattivita'. Se hai bisogno, non esitare a ricontattarmi"
ThinkingMessage == "Sto pensando alla risposta, dammi qualche secondo..."
WebhookEmptyFallback == "Mi dispiace, non sono riuscito a generare una risposta. Posso aiutarti in altro modo?"
WebhookErrorFallback == "Mi dispiace, si e' verificato un errore nella generazione della risposta. Posso aiutarti in altro modo?"
ConfigApology == "Mi dispiace, si e' verificato un errore di configurazione. L'assistente non e' disponibile al momento."
EmptyApology == "Mi dispiace, non sono riuscito a generare una risposta pertinente. Posso aiutarti in altro modo?"
TimeoutApology == "Mi dispiace, la generazione della risposta sta richiedendo troppo tempo. Potresti riformulare la tua domanda o riprovare piu' tardi?"
GenericApology == "Mi dispiace, si e' verificato un errore nella generazione della risposta. Posso aiutarti in altro modo?"
TimeoutErrorMessage == "Timeout nella chiamata a Gemini API"
DefaultResponseText == "Grazie per il tuo messaggio! Un operatore ti rispondera' a breve."
LengthInstruction == "\n\nLimita la tua risposta a un massimo di 1500 caratteri."

TickMs == SweepsPerTick * SweepInterval
MaxTime == MaxTicks * TickMs
NoTime == -1

(***************************************************************************)
(* JavaScript string helpers.                                              *)
(***************************************************************************)
Min(a, b) == IF a < b THEN a ELSE b

\* s.substring(from, to), 0-based, end exclusive, clamped to the length
Substring(s, from, to) == SubSeq(s, from + 1, Min(to, Len(s)))

CharAt(s, i) == SubSeq(s, i, i)

Whitespace == {" ", "\n", "\t"}

\* s.trim() === ""
IsBlank(s) == \A i \in 1..Len(s) : CharAt(s, i) \in Whitespace

\* s.includes(sub)
Includes(s, sub) ==
  \E i \in 1..(Len(s) - Len(sub) + 1) : SubSeq(s, i, i + Len(sub) - 1) = sub

RECURSIVE Repeat(_, _)
Repeat(s, n) ==
  IF n = 0 THEN ""
  ELSE IF n % 2 = 0 THEN LET h == Repeat(s, n \div 2) IN h \o h
  ELSE s \o Repeat(s, n - 1)


(***************************************************************************)
(* Values thrown or rejected by a collaborator.  type is the JavaScript    *)
(* type of the value: an Error carries a message string; a string, a plain *)
(* object and undefined carry none.                                        *)
(***************************************************************************)
ErrorValue(msg) == [type |-> "Error", message |-> msg]
StringValue(s) == [type |-> "string", message |-> s]
UndefinedValue == [type |-> "undefined", message |-> ""]
TypeErrorValue == ErrorValue("Cannot read properties of undefined")

\* error.stack evaluates without throwing
CanReadStack(err) == err.type # "undefined"
\* error.message is a string
HasMessage(err) == err.type = "Error"

Resolved(v) == [status |-> "resolved", value |-> v, error |-> UndefinedValue]
Rejected(e) == [status |-> "rejected", value |-> "", error |-> e]

(***************************************************************************)
(* generateAIResponse: the reply composer.                                 *)
(* env holds what the collaborators do during the call:                    *)
(*   apiKey      GEMINI_API_KEY is set                                     *)
(*   embed       [kind: "vector" | "null" | "throws", err]                 *)
(*   search      [kind: "docs" | "empty" | "throws", docs, err]            *)
(*   completion  [kind: "text" | "timeout" | "rejects", text, err]         *)
(***************************************************************************)
ContextHeader == "Informazioni rilevanti dai documenti dell'utente:\n\n"

RECURSIVE ContextBlocks(_, _)
ContextBlocks(docs, index) ==
  IF index > Len(docs) THEN ""
  ELSE LET doc == docs[index]
           block == IF doc.text # ""
                    THEN "Documento " \o doc.label \o " (fonte: " \o doc.source
                         \o ", pagina: " \o doc.page \o "):\n" \o doc.text \o "\n\n"
                    ELSE ""
       IN block \o ContextBlocks(docs, index + 1)

\* the retrieval without its try / catch: a rejection reaches the outer catch
RagContextPropagating(userPhone, env) ==
  IF userPhone = "" THEN Resolved("")
  ELSE IF env.embed.kind = "throws" THEN Rejected(env.embed.err)
  ELSE IF env.embed.kind = "null" THEN Resolved("")
  ELSE IF env.search.kind = "throws" THEN Rejected(env.search.err)
  ELSE IF env.search.kind = "docs" /\ Len(env.search.docs) > 0
       THEN Resolved(ContextHeader \o ContextBlocks(env.search.docs, 1))
  ELSE Resolved("")

\* the try block around getEmbeddings / searchDocumentsForUser and its catch
RagContext(userPhone, env) ==
  IF userPhone = "" THEN Resolved("")
  ELSE IF env.embed.kind = "throws"
       THEN IF CanReadStack(env.embed.err) THEN Resolved("") ELSE Rejected(TypeErrorValue)
  ELSE IF env.embed.kind = "null" THEN Resolved("")
  ELSE IF env.search.kind = "throws"
       THEN IF CanReadStack(env.search.err) THEN Resolved("") ELSE Rejected(TypeErrorValue)
  ELSE IF env.search.kind = "docs" /\ Len(env.search.docs) > 0
       THEN Resolved(ContextHeader \o ContextBlocks(env.search.docs, 1))
  ELSE Resolved("")

FinalPrompt(prompt, context) ==
  IF context # ""
  THEN context \o "\n\nDomanda dell'utente: " \o prompt
       \o "\n\nRispondi alla domanda dell'utente utilizzando le informazioni fornite sopra quando pertinenti. Se le informazioni non sono sufficienti, fornisci una risposta generale."
  ELSE prompt

PromptWithConstraint(prompt, context) == FinalPrompt(prompt, context) \o LengthInstruction

\* the post-processing with the cap tested by >= instead of >
PostProcessOffByOne(text) ==
  IF text = "" \/ IsBlank(text) THEN EmptyApology
  ELSE IF Len(text) >= ReplyCap THEN Substring(text, 0, ReplyCap) \o Ellipsis
  ELSE text

\* the post-processing of the completion text
PostProcess(text) ==
  IF text = "" \/ IsBlank(text) THEN EmptyApology
  ELSE IF Len(text) > ReplyCap THEN Substring(text, 0, ReplyCap) \o Ellipsis
  ELSE text

\* the outer catch block
CatchHandler(error) ==
  IF ~CanReadStack(error) THEN Rejected(TypeErrorValue)
  ELSE IF ~HasMessage(error) THEN Rejected(TypeErrorValue)
  ELSE IF Includes(error.message, "Timeout") THEN Resolved(TimeoutApology)
  ELSE Resolved(GenericApology)

\* the prompt handed to model.generateContent, "" when it is not invoked
CompletionPrompt(prompt, userPhone, env) ==
  IF ~env.apiKey THEN ""
  ELSE LET rag == RagContext(userPhone, env)
       IN IF rag.status = "rejected" THEN ""
          ELSE PromptWithConstraint(prompt, rag.value)

generateAIResponse(prompt, userPhone, env) ==
  IF ~env.apiKey THEN Resolved(ConfigApology)
  ELSE LET rag == RagContext(userPhone, env)
       IN IF rag.status = "rejected" THEN CatchHandler(rag.error)
          ELSE IF env.completion.kind = "timeout"
               THEN CatchHandler(ErrorValue(TimeoutErrorMessage))
          ELSE IF env.completion.kind = "rejects"
               THEN CatchHandler(env.completion.err)
          ELSE Resolved(PostProcess(env.completion.text))


(***************************************************************************)
(* Collaborator behaviours explored.                                       *)
(***************************************************************************)
NoErr == UndefinedValue
EmbedOutcomes ==
  { [kind |-> "vector", err |-> NoErr],
    [kind |-> "null", err |-> NoErr],
    [kind |-> "throws", err |-> ErrorValue("fetch failed")],
    [kind |-> "throws", err |-> UndefinedValue] }

Doc(label, text) == [label |-> label, source |-> "guida.pdf", page |-> "1", text |-> text]
SearchOutcomes ==
  { [kind |-> "docs", docs |-> <<Doc("1", "Orari: 9-18."), Doc("2", "")>>, err |-> NoErr],
    [kind |-> "empty", docs |-> <<>>, err |-> NoErr],
    [kind |-> "throws", docs |-> <<>>, err |-> ErrorValue("network error")] }

\* completion texts around the reply cap, blank and non-blank
CompletionTexts ==
  {"", " \n ", "Ciao!"}
  \cup { Repeat("ab", ReplyCap \div 2 - 1) \o Repeat("c", k) : k \in 1..(2 + MaxOver) }
  \cup { Repeat(" ", ReplyCap + k) : k \in 0..MaxOver }

ThrownValues ==
  { ErrorValue("429 Too Many Requests"),
    ErrorValue("Request Timeout from upstream"),
    ErrorValue("Invalid JSON payload: unknown name requestTimeout"),
    StringValue("quota exceeded"),
    UndefinedValue }

CompletionOutcomes ==
  { [kind |-> "text", text |-> t, err |-> NoErr] : t \in CompletionTexts }
  \cup { [kind |-> "timeout", text |-> "", err |-> NoErr] }
  \cup { [kind |-> "rejects", text |-> "", err |-> e] : e \in ThrownValues }

Envs ==
  [apiKey : BOOLEAN, embed : EmbedOutcomes, search : SearchOutcomes,
   completion : CompletionOutcomes]

\* the collaborator behaviours explored inside the webhook pipeline
WebhookEnvs ==
  { [apiKey |-> TRUE, embed |-> [kind |-> "null", err |-> NoErr],
     search |-> [kind |-> "empty", docs |-> <<>>, err |-> NoErr], completion |-> c] :
    c \in { [kind |-> "text", text |-> "Ciao!", err |-> NoErr],
            [kind |-> "text", text |-> "", err |-> NoErr],
            [kind |-> "text", text |-> Repeat("ab", ReplyCap \div 2) \o "c", err |-> NoErr],
            [kind |-> "rejects", text |-> "", err |-> StringValue("quota exceeded")] } }

(***************************************************************************)
(* State of the server.                                                    *)
(***************************************************************************)
VARIABLES
  now,            \* Date.now()
  conversations,  \* the in-memory table, by phone
  keys,           \* the keys of the table in insertion order
  disk,           \* conversations.json
  timers,         \* pending setTimeout(sendClosingMessage) callbacks, in order
  nextSweep,      \* when setInterval(handleUserInactivity) fires next
  inflight,       \* sends awaited by sendAutomaticMessage, sendClosingMessage, /api/send
  handlers,       \* the webhook requests, by arrival number
  outbox,         \* the calls of sendTwilioMessage made so far (a bag)
  appSettings,    \* the settings singleton
  delivery,       \* the send that settled last, what it returned and what was answered
  call,           \* the last generateAIResponse call checked on its own
  collection,     \* the points of the Qdrant collection "documenti"
  upload,         \* the handleFileUpload call in progress
  lookup,         \* the last search or listing and what it returned
  split           \* the last splitIntoChunks call checked on its own

ragVars == <<collection, upload, lookup, split>>

vars == <<now, conversations, keys, disk, timers, nextSweep, inflight, handlers,
          outbox, appSettings, delivery, delivery, call, ragVars>>

serverVars == <<now, conversations, keys, disk, timers, nextSweep, inflight, handlers,
                outbox, appSettings, delivery>>

NoConversation ==
  [exists |-> FALSE, phone |-> "", messages |-> <<>>, lastActivity |-> NoTime,
   inactivityMessageSent |-> FALSE, closed |-> FALSE, closedAt |-> NoTime]

Message(direction, content, automatic) ==
  [direction |-> direction, content |-> content, timestamp |-> now,
   automatic |-> automatic]

\* no send has settled yet
NoDelivery == [kind |-> "none", phone |-> "", sent |-> FALSE, status |-> 0]

\* sendTwilioMessage returned sent to the caller of kind; status is the HTTP
\* status the caller answered with afterwards, 0 if it answers nothing
Delivery(kind, phone, sent, status) ==
  [kind |-> kind, phone |-> phone, sent |-> sent, status |-> status]

IdleHandler ==
  [pc |-> "idle", from |-> "", text |-> "", thinking |-> "none",
   thinkingMessageSent |-> FALSE, response |-> ""]

NoCall ==
  [prompt |-> "", userPhone |-> "",
   env |-> [apiKey |-> FALSE, embed |-> [kind |-> "null", err |-> NoErr],
            search |-> [kind |-> "empty", docs |-> <<>>, err |-> NoErr],
            completion |-> [kind |-> "timeout", text |-> "", err |-> NoErr]],
   done |-> FALSE, result |-> Resolved("")]

\* no upload was started yet
NoUpload ==
  [pc |-> "idle", organizationId |-> "", pages |-> <<>>, i |-> 0, j |-> 0,
   timestamp |-> "",
   totalChunks |-> 0, successfulEmbeddings |-> 0, failedEmbeddings |-> 0,
   embedded |-> <<>>, vectorRecords |-> <<>>,
   points |-> <<>>, at |-> 0, successCount |-> 0, errorCount |-> 0,
   upserts |-> <<>>, inserted |-> [type |-> "undefined", value |-> ""],
   tempFile |-> FALSE, unlinks |-> 0, error |-> "",
   result |-> [success |-> FALSE, message |-> "", recordsCount |-> -1]]

\* a listing that reaches neither the client nor any endpoint
NoListing ==
  [client |-> FALSE, credentials |-> FALSE, direct |-> "fails", search |-> "fails",
   scroll |-> "fails", fetch |-> "fails"]

\* no search or listing was made yet
NoLookup ==
  [op |-> "none", organizationId |-> "", env |-> NoListing, first |-> {}, docs |-> {}]

\* splitIntoChunks was not called
NoSplit == [text |-> "", done |-> FALSE, chunks |-> <<>>, startIndex |-> 0, exit |-> "none"]

\* the document index is not used
InitRag ==
  /\ collection = {}
  /\ upload = NoUpload
  /\ split = NoSplit
  /\ lookup = NoLookup

\* conversations.json as an earlier run of the server left it: absent, or holding
\* one conversation whose first message was stored at time 0
StoredConversation(p) ==
  [exists |-> TRUE, phone |-> p,
   messages |-> <<[direction |-> "received", content |-> "ciao", timestamp |-> 0,
                   automatic |-> FALSE]>>,
   lastActivity |-> 0, inactivityMessageSent |-> FALSE, closed |-> FALSE,
   closedAt |-> NoTime]

PersistedTables ==
  { [p \in Phones |-> NoConversation] }
  \cup { [p \in Phones |-> IF p = q THEN StoredConversation(q) ELSE NoConversation] :
         q \in Phones }

RECURSIVE KeysOf(_, _)
KeysOf(table, phones) ==
  IF phones = {} THEN <<>>
  ELSE LET p == CHOOSE q \in phones : TRUE
       IN (IF table[p].exists THEN <<p>> ELSE <<>>) \o KeysOf(table, phones \ {p})

NumHandlers == IF MaxInbound > MaxWebhooks THEN MaxInbound ELSE MaxWebhooks

\* the state after startup: the table is loaded from conversations.json
InitServer ==
  /\ now = 0
  /\ disk \in PersistedTables
  /\ conversations = disk
  /\ keys = KeysOf(disk, Phones)
  /\ timers = <<>>
  /\ nextSweep = SweepInterval
  /\ inflight = {}
  /\ handlers = [h \in 1..NumHandlers |-> IdleHandler]
  /\ outbox = EmptyBag
  /\ appSettings = [responseMode |-> "auto", defaultResponse |-> DefaultResponseText]
  /\ delivery = NoDelivery

Init == InitServer /\ call = NoCall /\ InitRag

(***************************************************************************)
(* sendTwilioMessage: the body handed to the transport, and the log of     *)
(* the calls.  The call suspends on client.messages.create; its boolean    *)
(* result arrives when the caller resumes.                                 *)
(***************************************************************************)
TwilioBodyWithinCap(message) ==
  IF Len(message) > ReplyCap
  THEN Substring(message, 0, ReplyCap - Len(Ellipsis)) \o Ellipsis
  ELSE message

TwilioBody(message) ==
  IF Len(message) > ReplyCap THEN Substring(message, 0, ReplyCap) \o Ellipsis
  ELSE message

SendEntry(to, message, kind, h) ==
  [to |-> to, body |-> TwilioBody(message), kind |-> kind, handler |-> h, at |-> now]

\* one call of sendTwilioMessage
Sent(entry) == SetToBag({entry})

\* the calls made from the given call sites
Calls(kinds) == [e \in {x \in BagToSet(outbox) : x.kind \in kinds} |-> outbox[e]]

\* how many times sendTwilioMessage was called to a number from one call site
SendsOf(box, kind, to) ==
  BagCardinality([e \in {x \in BagToSet(box) : x.kind = kind /\ x.to = to} |-> box[e]])

\* how many times one webhook request called sendTwilioMessage from one call site
SendsBy(box, kind, h) ==
  BagCardinality([e \in {x \in BagToSet(box) : x.kind = kind /\ x.handler = h}
                    |-> box[e]])

saveConversations(table) == table


(***************************************************************************)
(* POST /webhook.                                                          *)
(***************************************************************************)
\* the reset of the webhook without the line that clears closed
InboundKeepingClosed(conv, p, messageText) ==
  LET base == IF conv.exists THEN conv
              ELSE [NoConversation EXCEPT !.exists = TRUE, !.phone = p,
                                          !.lastActivity = now]
  IN [base EXCEPT !.messages = Append(@, Message("received", messageText, FALSE)),
                  !.lastActivity = now,
                  !.inactivityMessageSent = FALSE]

Inbound(conv, p, messageText) ==
  LET base == IF conv.exists THEN conv
              ELSE [NoConversation EXCEPT !.exists = TRUE, !.phone = p,
                                          !.lastActivity = now]
  IN [base EXCEPT !.messages = Append(@, Message("received", messageText, FALSE)),
                  !.lastActivity = now,
                  !.inactivityMessageSent = FALSE,
                  !.closed = FALSE]

\* the request arrives: the synchronous part up to the await on generateAIResponse;
\* a request with an empty Body returns at once and changes nothing
WebhookReceive(h, p, messageText) ==
  /\ handlers[h].pc = "idle"
  /\ IF h = 1 THEN TRUE ELSE handlers[h - 1].pc # "idle"
  /\ IF messageText = ""
     THEN UNCHANGED <<conversations, keys, disk, handlers>>
     ELSE /\ conversations' = [conversations EXCEPT ![p] = Inbound(@, p, messageText)]
          /\ keys' = IF conversations[p].exists THEN keys ELSE Append(keys, p)
          /\ disk' = saveConversations(conversations')
          /\ handlers' = [handlers EXCEPT ![h].pc = "generating", ![h].from = p,
                                          ![h].text = messageText,
                                          ![h].thinking = "armed"]
  /\ UNCHANGED <<now, timers, nextSweep, inflight, outbox, appSettings, delivery, call, ragVars>>

\* the 7 s timer fires while the reply is still being generated
ThinkingFire(h) ==
  /\ handlers[h].thinking = "armed"
  /\ handlers' = [handlers EXCEPT ![h].thinking = "sending"]
  /\ outbox' = outbox (+) Sent(SendEntry(handlers[h].from, ThinkingMessage, "thinking", h))
  /\ UNCHANGED <<now, conversations, keys, disk, timers, nextSweep, inflight,
                 appSettings, delivery, call, ragVars>>

\* the send of the interim notice returns
ThinkingDone(h) ==
  /\ handlers[h].thinking = "sending"
  /\ handlers' = [handlers EXCEPT ![h].thinking = "sent", ![h].thinkingMessageSent = TRUE]
  /\ UNCHANGED <<now, conversations, keys, disk, timers, nextSweep, inflight, outbox,
                 appSettings, delivery, call, ragVars>>

\* the fixed strings the webhook and generateAIResponse reply with on a failure
FixedReplies ==
  {WebhookEmptyFallback, WebhookErrorFallback, ConfigApology, EmptyApology,
   TimeoutApology, GenericApology}

\* the webhook forwarding the message of the error it caught
WebhookResponseRaw(r) ==
  IF r.status = "rejected" THEN r.error.message
  ELSE IF r.value = "" \/ IsBlank(r.value) THEN WebhookEmptyFallback
  ELSE r.value

\* the text the webhook sends for a settled generateAIResponse call
WebhookResponse(r) ==
  IF r.status = "rejected" THEN WebhookErrorFallback
  ELSE IF r.value = "" \/ IsBlank(r.value) THEN WebhookEmptyFallback
  ELSE r.value

\* generateAIResponse settles; the handler clears the timer and pauses or sends
GenerateDone(h, env) ==
  /\ handlers[h].pc = "generating"
  /\ LET r == generateAIResponse(handlers[h].text, handlers[h].from, env)
         response == WebhookResponse(r)
         cleared == IF handlers[h].thinking = "armed" THEN "cleared"
                    ELSE handlers[h].thinking
     IN IF handlers[h].thinkingMessageSent
        THEN /\ handlers' = [handlers EXCEPT ![h].pc = "pausing", ![h].response = response,
                                             ![h].thinking = cleared]
             /\ UNCHANGED outbox
        ELSE /\ handlers' = [handlers EXCEPT ![h].pc = "sending", ![h].response = response,
                                             ![h].thinking = cleared]
             /\ outbox' = outbox (+) Sent(SendEntry(handlers[h].from, response, "reply", h))
  /\ UNCHANGED <<now, conversations, keys, disk, timers, nextSweep, inflight,
                 appSettings, delivery, call, ragVars>>

\* the 1.5 s pause after an interim notice ends
PauseDone(h) ==
  /\ handlers[h].pc = "pausing"
  /\ handlers' = [handlers EXCEPT ![h].pc = "sending"]
  /\ outbox' = outbox (+) Sent(SendEntry(handlers[h].from, handlers[h].response, "reply", h))
  /\ UNCHANGED <<now, conversations, keys, disk, timers, nextSweep, inflight,
                 appSettings, delivery, call, ragVars>>

OutboundReplacing(conv, content, automatic) ==
  LET base == IF conv.exists THEN conv ELSE [NoConversation EXCEPT !.exists = TRUE]
  IN [base EXCEPT !.messages = <<Message("sent", content, automatic)>>]

OutboundTouchingActivity(conv, content, automatic) ==
  LET base == IF conv.exists THEN conv ELSE [NoConversation EXCEPT !.exists = TRUE]
  IN [base EXCEPT !.messages = Append(@, Message("sent", content, automatic)),
                  !.lastActivity = now,
                  !.inactivityMessageSent = FALSE]

Outbound(conv, content, automatic) ==
  LET base == IF conv.exists THEN conv ELSE [NoConversation EXCEPT !.exists = TRUE]
  IN [base EXCEPT !.messages = Append(@, Message("sent", content, automatic))]

\* the send of the reply returns (sent is its boolean result)
ReplyDone(h, sent) ==
  /\ handlers[h].pc = "sending"
  /\ conversations' = [conversations EXCEPT
                         ![handlers[h].from] = Outbound(@, handlers[h].response, FALSE)]
  /\ disk' = saveConversations(conversations')
  /\ handlers' = [handlers EXCEPT ![h].pc = "done"]
  /\ delivery' = Delivery("reply", handlers[h].from, sent, 0)
  /\ UNCHANGED <<now, keys, timers, nextSweep, inflight, outbox, appSettings, call, ragVars>>


(***************************************************************************)
(* The idle sweep and the closing timers.                                  *)
(***************************************************************************)
\* the condition without the test of inactivityMessageSent
ShouldWarnIgnoringFlag(user, t) ==
  /\ user.lastActivity # NoTime
  /\ t - user.lastActivity >= InactivityLimit
  /\ ~user.closed

\* the condition without the test of closed
ShouldWarnIgnoringClosed(user, t) ==
  /\ user.lastActivity # NoTime
  /\ t - user.lastActivity >= InactivityLimit
  /\ ~user.inactivityMessageSent

\* the condition of handleUserInactivity
ShouldWarn(user, t) ==
  /\ user.lastActivity # NoTime
  /\ t - user.lastActivity >= InactivityLimit
  /\ ~user.inactivityMessageSent
  /\ ~user.closed

\* a send awaited by its caller; entry is the place of the call in the outbox
Pending(kind, phone, entry) ==
  [kind |-> kind, phone |-> phone, message |-> "", entry |-> entry]

\* the body of the for-in loop, from the i-th key on
RECURSIVE SweepLoop(_, _)
SweepLoop(i, st) ==
  IF i > Len(keys) THEN st
  ELSE LET from == keys[i]
           user == st.conversations[from]
       IN IF ShouldWarn(user, now)
          THEN SweepLoop(i + 1,
                 [conversations |-> [st.conversations EXCEPT
                                       ![from].inactivityMessageSent = TRUE],
                  outbox |-> st.outbox
                               (+) Sent(SendEntry(from, AutomaticMessage, "automatic", 0)),
                  inflight |-> st.inflight
                                 \cup {Pending("automatic", from, BagCardinality(st.outbox) + 1)},
                  timers |-> Append(st.timers,
                                    [phone |-> from, due |-> now + InactivityLimit])])
          ELSE SweepLoop(i + 1, st)

\* setInterval(handleUserInactivity, 60 * 1000) fires
handleUserInactivity ==
  /\ now >= nextSweep
  /\ LET st == SweepLoop(1, [conversations |-> conversations, outbox |-> outbox,
                             inflight |-> inflight, timers |-> timers])
     IN /\ conversations' = st.conversations
        /\ outbox' = st.outbox
        /\ inflight' = st.inflight
        /\ timers' = st.timers
  /\ nextSweep' = now + SweepInterval
  /\ UNCHANGED <<now, keys, disk, handlers, appSettings, delivery, call, ragVars>>

\* sendAutomaticMessage resumes after its send (sent is its boolean result)
AutomaticDone(s, sent) ==
  /\ s \in inflight /\ s.kind = "automatic"
  /\ inflight' = inflight \ {s}
  /\ conversations' = [conversations EXCEPT
                         ![s.phone] = Outbound(@, AutomaticMessage, TRUE)]
  /\ disk' = saveConversations(conversations')
  /\ delivery' = Delivery("automatic", s.phone, sent, 0)
  /\ UNCHANGED <<now, keys, timers, nextSweep, handlers, outbox, appSettings, call, ragVars>>

\* a closing timer fires: sendClosingMessage runs up to the await on its send
sendClosingMessage ==
  /\ Len(timers) > 0
  /\ Head(timers).due <= now
  /\ LET from == Head(timers).phone
     IN /\ outbox' = outbox (+) Sent(SendEntry(from, ClosingMessage, "closing", 0))
        /\ inflight' = inflight \cup {Pending("closing", from, BagCardinality(outbox) + 1)}
  /\ timers' = Tail(timers)
  /\ UNCHANGED <<now, conversations, keys, disk, nextSweep, handlers, appSettings,
                 delivery, call, ragVars>>

\* closing without the time stamp
closeConversationUnstamped(conv) == [conv EXCEPT !.closed = TRUE]

closeConversation(conv) == [conv EXCEPT !.closed = TRUE, !.closedAt = now]

\* sendClosingMessage skipping its update when the send returned false
ClosingDoneOnlyIfSent(s, sent) ==
  /\ s \in inflight /\ s.kind = "closing"
  /\ inflight' = inflight \ {s}
  /\ conversations' =
       IF sent
       THEN [conversations EXCEPT
               ![s.phone] = closeConversation(Outbound(@, ClosingMessage, TRUE))]
       ELSE conversations
  /\ disk' = IF sent THEN saveConversations(conversations') ELSE disk
  /\ delivery' = Delivery("closing", s.phone, sent, 0)
  /\ UNCHANGED <<now, keys, timers, nextSweep, handlers, outbox, appSettings, call, ragVars>>

\* sendClosingMessage resumes after its send (sent is its boolean result)
ClosingDone(s, sent) ==
  /\ s \in inflight /\ s.kind = "closing"
  /\ inflight' = inflight \ {s}
  /\ conversations' = [conversations EXCEPT
                         ![s.phone] = closeConversation(Outbound(@, ClosingMessage, TRUE))]
  /\ disk' = saveConversations(conversations')
  /\ delivery' = Delivery("closing", s.phone, sent, 0)
  /\ UNCHANGED <<now, keys, timers, nextSweep, handlers, outbox, appSettings, call, ragVars>>

(***************************************************************************)
(* POST /api/send and POST /api/settings.                                  *)
(***************************************************************************)
OperatorMessage == "Buongiorno, sono l'operatore."

OperatorSends == BagCardinality(outbox) - BagCardinality(Calls({"thinking", "reply", "automatic", "closing"}))

ApiSend(phone, message) ==
  /\ OperatorSends < MaxOperatorSends
  /\ outbox' = outbox (+) Sent(SendEntry(phone, message, "operator", 0))
  /\ inflight' = inflight \cup {[Pending("operator", phone, BagCardinality(outbox) + 1)
                                    EXCEPT !.message = message]}
  /\ UNCHANGED <<now, conversations, keys, disk, timers, nextSweep, handlers,
                 appSettings, delivery, call, ragVars>>

\* POST /api/send resumes after its send (sent is its boolean result) and
\* answers {status: "Messaggio inviato con successo"}
ApiSendDone(s, sent) ==
  /\ s \in inflight /\ s.kind = "operator"
  /\ inflight' = inflight \ {s}
  /\ conversations' = [conversations EXCEPT ![s.phone] = Outbound(@, s.message, FALSE)]
  /\ keys' = IF conversations[s.phone].exists THEN keys ELSE Append(keys, s.phone)
  /\ disk' = saveConversations(conversations')
  /\ delivery' = Delivery("operator", s.phone, sent, 200)
  /\ UNCHANGED <<now, timers, nextSweep, handlers, outbox, appSettings, call, ragVars>>

\* a request body: a field that is absent is undefined
\* the bodies posted: responseMode and defaultResponse present or not; the
\* handler stores whatever value it is given, here also a mode it does not know
SettingsBodies ==
  [hasMode : BOOLEAN, responseMode : {"auto", "manual", "off"},
   hasDefault : BOOLEAN, defaultResponse : {"Torno subito."}]

PostSettings(body) ==
  /\ appSettings' =
       [responseMode |-> IF body.hasMode THEN body.responseMode
                         ELSE appSettings.responseMode,
        defaultResponse |-> IF body.hasDefault THEN body.defaultResponse
                            ELSE appSettings.defaultResponse]
  /\ UNCHANGED <<now, conversations, keys, disk, timers, nextSweep, inflight, handlers,
                 outbox, delivery, call, ragVars>>

(***************************************************************************)
(* The clock.  A timer that is due runs before the clock moves on.         *)
(***************************************************************************)
Tick ==
  /\ now < MaxTime
  /\ now < nextSweep
  /\ IF Len(timers) = 0 THEN TRUE ELSE Head(timers).due > now
  /\ inflight = {}
  /\ \A h \in 1..NumHandlers : /\ handlers[h].pc \in {"idle", "done"}
                                /\ handlers[h].thinking \notin {"armed", "sending"}
  /\ now' = now + TickMs
  /\ UNCHANGED <<conversations, keys, disk, timers, nextSweep, inflight, handlers,
                 outbox, appSettings, delivery, call, ragVars>>

MessageTexts == {"", "ciao"}

\* the collaborator behaviour explored while the clock runs: a prompt completion
PromptEnvs ==
  { e \in WebhookEnvs : e.completion.kind = "text" /\ e.completion.text = "Ciao!" }

(***************************************************************************)
(* Spec: the conversation life cycle.  Webhook requests, operator sends,   *)
(* the sweep, the closing timers and the clock; replies are generated      *)
(* before the 7 s timer fires.                                             *)
(***************************************************************************)
Next ==
  \/ \E h \in 1..MaxInbound, p \in Phones, t \in MessageTexts : WebhookReceive(h, p, t)
  \/ \E h \in 1..MaxInbound, env \in PromptEnvs : GenerateDone(h, env)
  \/ \E h \in 1..MaxInbound, sent \in BOOLEAN : ReplyDone(h, sent)
  \/ handleUserInactivity
  \/ \E s \in inflight, sent \in BOOLEAN : AutomaticDone(s, sent)
  \/ sendClosingMessage
  \/ \E s \in inflight, sent \in BOOLEAN : ClosingDone(s, sent)
  \/ \E p \in Phones : ApiSend(p, OperatorMessage)
  \/ \E s \in inflight, sent \in BOOLEAN : ApiSendDone(s, sent)
  \/ Tick

Spec == Init /\ [][Next]_vars

\* the process keeps running: the clock advances, the interval and the timers
\* fire when due, and every await settles
SpecFair ==
  /\ Spec
  /\ WF_vars(Tick)
  /\ WF_vars(handleUserInactivity)
  /\ WF_vars(sendClosingMessage)
  /\ WF_vars(\E s \in inflight, sent \in BOOLEAN : AutomaticDone(s, sent))
  /\ WF_vars(\E s \in inflight, sent \in BOOLEAN : ClosingDone(s, sent))
  /\ WF_vars(\E s \in inflight, sent \in BOOLEAN : ApiSendDone(s, sent))
  /\ WF_vars(\E h \in 1..MaxInbound, env \in PromptEnvs : GenerateDone(h, env))
  /\ WF_vars(\E h \in 1..MaxInbound, sent \in BOOLEAN : ReplyDone(h, sent))

(***************************************************************************)
(* SpecRestart: the life cycle after a restart.  The process stopped after *)
(* an idle warning was sent and saved, while its closing timer was pending;*)
(* the new process loads the table and starts with no timer.               *)
(***************************************************************************)

\* the conversation as the stopped process saved it: last inbound at time 0,
\* warned InactivityLimit later
WarnedConversation(p) ==
  [exists |-> TRUE, phone |-> p,
   messages |-> <<[direction |-> "received", content |-> "ciao", timestamp |-> 0,
                   automatic |-> FALSE],
                  [direction |-> "sent", content |-> AutomaticMessage,
                   timestamp |-> InactivityLimit, automatic |-> TRUE]>>,
   lastActivity |-> 0, inactivityMessageSent |-> TRUE, closed |-> FALSE,
   closedAt |-> NoTime]

\* the state after the restart, one clock step after the warning
InitRestart ==
  /\ now = TickMs
  /\ disk = [p \in Phones |-> WarnedConversation(p)]
  /\ conversations = disk
  /\ keys = KeysOf(disk, Phones)
  /\ timers = <<>>
  /\ nextSweep = now + SweepInterval
  /\ inflight = {}
  /\ handlers = [h \in 1..NumHandlers |-> IdleHandler]
  /\ outbox = EmptyBag
  /\ appSettings = [responseMode |-> "auto", defaultResponse |-> DefaultResponseText]
  /\ delivery = NoDelivery
  /\ call = NoCall
  /\ InitRag

SpecRestart == InitRestart /\ [][Next]_vars

(***************************************************************************)
(* SpecWebhook: the reply pipeline at one instant.  Concurrent webhook     *)
(* requests, slow and failing generation, and the interim notice.          *)
(***************************************************************************)
NextWebhook ==
  \/ \E h \in 1..MaxWebhooks, p \in Phones, t \in MessageTexts : WebhookReceive(h, p, t)
  \/ \E h \in 1..MaxWebhooks : ThinkingFire(h)
  \/ \E h \in 1..MaxWebhooks : ThinkingDone(h)
  \/ \E h \in 1..MaxWebhooks, env \in WebhookEnvs : GenerateDone(h, env)
  \/ \E h \in 1..MaxWebhooks : PauseDone(h)
  \/ \E h \in 1..MaxWebhooks, sent \in BOOLEAN : ReplyDone(h, sent)

\* the server starts with no conversations.json
InitWebhook ==
  /\ InitServer
  /\ disk = [p \in Phones |-> NoConversation]
  /\ call = NoCall
  /\ InitRag

SpecWebhook == InitWebhook /\ [][NextWebhook]_vars

\* every await of the handler settles: generateAIResponse, the pause, the sends
SpecWebhookFair ==
  /\ SpecWebhook
  /\ \A h \in 1..MaxWebhooks :
       /\ WF_vars(\E env \in WebhookEnvs : GenerateDone(h, env))
       /\ WF_vars(ThinkingDone(h))
       /\ WF_vars(PauseDone(h))
       /\ WF_vars(\E sent \in BOOLEAN : ReplyDone(h, sent))

(***************************************************************************)
(* SpecSettings: webhook requests interleaved with settings updates.       *)
(***************************************************************************)
NextSettings ==
  \/ \E h \in 1..MaxWebhooks, p \in Phones, t \in MessageTexts : WebhookReceive(h, p, t)
  \/ \E h \in 1..MaxWebhooks, env \in WebhookEnvs : GenerateDone(h, env)
  \/ \E h \in 1..MaxWebhooks, sent \in BOOLEAN : ReplyDone(h, sent)
  \/ \E b \in SettingsBodies : PostSettings(b)

SpecSettings == InitWebhook /\ [][NextSettings]_vars

(***************************************************************************)
(* SpecSend: the bodies handed to Twilio.  Webhook replies, capped or not, *)
(* and operator messages of every length around the cap.                   *)
(***************************************************************************)

\* operator messages: short, as long as the cap, one character longer, an
\* already truncated body, and a long one
OperatorBodies ==
  { OperatorMessage,
    Repeat("ab", ReplyCap \div 2),
    Repeat("ab", ReplyCap \div 2) \o "c",
    Repeat("ab", ReplyCap \div 2) \o Ellipsis,
    Repeat("ab", ReplyCap \div 2) \o Repeat("cd", 50) }

NextSend ==
  \/ \E h \in 1..MaxInbound, p \in Phones, t \in MessageTexts : WebhookReceive(h, p, t)
  \/ \E h \in 1..MaxInbound, env \in WebhookEnvs : GenerateDone(h, env)
  \/ \E h \in 1..MaxInbound, sent \in BOOLEAN : ReplyDone(h, sent)
  \/ \E p \in Phones, message \in OperatorBodies : ApiSend(p, message)
  \/ \E s \in inflight, sent \in BOOLEAN : ApiSendDone(s, sent)

SpecSend == InitWebhook /\ [][NextSend]_vars

(***************************************************************************)
(* SpecReply: generateAIResponse on its own, called once with each         *)
(* combination of collaborator behaviours.                                 *)
(***************************************************************************)
Prompts == {"Quali sono gli orari?"}
UserPhones == {"", "p1"}

InitReply ==
  /\ InitServer
  /\ disk = [p \in Phones |-> NoConversation]
  /\ call \in [prompt : Prompts, userPhone : UserPhones, env : Envs, done : {FALSE},
               result : {Resolved("")}]
  /\ InitRag

\* the call settles
Generate ==
  /\ ~call.done
  /\ call' = [call EXCEPT !.done = TRUE,
                          !.result = generateAIResponse(call.prompt, call.userPhone,
                                                        call.env)]
  /\ UNCHANGED <<serverVars, ragVars>>

NextReply == Generate

SpecReply == InitReply /\ [][NextReply]_vars

(***************************************************************************)
(* The document index: rag/qdrant.mjs, rag/pharsingfile.mjs and the        *)
(* listing endpoint of server.mjs.                                         *)
(***************************************************************************)

\* the largest number of chunks of one page of an uploaded document
MaxChunksPerPage == 3

BATCH_SIZE == 5
DefaultSearchLimit == 5
DirectScrollLimit == 50
ZeroVectorSearchLimit == 100
ClientScrollLimit == 20
FetchDirectlyLimit == 100

\* the characters of the class [a-zA-Z0-9+:\-]
IdChars ==
  LET s == "abcdefghijklmnopqrstuvwxyzABCDEFGHIJKLMNOPQRSTUVWXYZ0123456789+:-"
  IN { SubSeq(s, k, k) : k \in 1..Len(s) }

\* id.replace(/[^...]/g, "_"): every character outside the class becomes "_"
RECURSIVE ReplaceOutside(_, _)
ReplaceOutside(chars, id) ==
  IF id = "" THEN ""
  ELSE (IF SubSeq(id, 1, 1) \in chars THEN SubSeq(id, 1, 1) ELSE "_")
         \o ReplaceOutside(chars, SubSeq(id, 2, Len(id)))

\* whether every character of id is in chars
RECURSIVE OnlyChars(_, _)
OnlyChars(chars, id) ==
  IF id = "" THEN TRUE
  ELSE SubSeq(id, 1, 1) \in chars /\ OnlyChars(chars, SubSeq(id, 2, Len(id)))

\* the image of the replacement: the class and "_"
IsNormalized(id) == OnlyChars(IdChars \cup {"_"}, id)

normalizeNothing(id) == id

normalizeOrganizationId(id) == ReplaceOutside(IdChars, id)

\* owner ids as callers pass them: a WhatsApp address, an id with a blank, an id
\* with a character outside the class, and an id that is its own normal form
UploadIds == {"whatsapp:+391", "org a"}
StoredIds == {"org@b"}
LookupIds == UploadIds \cup StoredIds \cup {"org_a"}

\* JavaScript values returned by insertDocuments
BooleanValue(b) == [type |-> "boolean", value |-> IF b THEN "true" ELSE "false"]
NumberValue(n) == [type |-> "number", value |-> ToString(n)]

\* the record processPDFForOrganization builds for chunk j of page i (0-based);
\* the id is kept as the decimal string that parseInt reads
\* the value of a decimal digit
DigitValue(c) == CHOOSE d \in 0..9 : ToString(d) = c

\* the number a string of at most nine decimal digits writes
RECURSIVE DecimalValue(_)
DecimalValue(s) ==
  IF s = "" THEN 0
  ELSE 10 * DecimalValue(SubSeq(s, 1, Len(s) - 1)) + DigitValue(SubSeq(s, Len(s), Len(s)))

\* a < b for two decimal numerals of the same length
RECURSIVE LessSameLength(_, _)
LessSameLength(a, b) ==
  IF a = "" THEN FALSE
  ELSE LET x == DigitValue(SubSeq(a, 1, 1))
           y == DigitValue(SubSeq(b, 1, 1))
       IN IF x # y THEN x < y ELSE LessSameLength(Tail(a), Tail(b))

\* a < b for two decimal numerals without leading zeros
LessDecimal(a, b) ==
  IF Len(a) # Len(b) THEN Len(a) < Len(b) ELSE LessSameLength(a, b)

\* the numeral of the number after the one s writes
RECURSIVE Successor(_)
Successor(s) ==
  IF s = "" THEN "1"
  ELSE LET d == DigitValue(SubSeq(s, Len(s), Len(s)))
           front == SubSeq(s, 1, Len(s) - 1)
       IN IF d < 9 THEN front \o ToString(d + 1) ELSE Successor(front) \o "0"

\* 2^53, 2^54, ... 2^58: from 2^(52+k) on a Number holds only multiples of 2^k
PowersOfTwo ==
  << "9007199254740992", "18014398509481984", "36028797018963968",
     "72057594037927936", "144115188075855872", "288230376151711744" >>

RECURSIVE TwoToThe(_)
TwoToThe(k) == IF k = 0 THEN 1 ELSE 2 * TwoToThe(k - 1)

\* n written with nine digits
NineDigits(n) == LET t == ToString(n) IN Repeat("0", 9 - Len(t)) \o t

\* parseInt(s) for a decimal numeral s below 2^58, written out exactly: the
\* Number nearest to the integer s writes, the even mantissa on a tie
ParseInt(s) ==
  LET k == Cardinality({ n \in 1..Len(PowersOfTwo) : ~LessDecimal(s, PowersOfTwo[n]) })
  IN IF k = 0 THEN s
     ELSE LET ulp == TwoToThe(k)
              front == SubSeq(s, 1, Len(s) - 9)
              tail == DecimalValue(SubSeq(s, Len(s) - 8, Len(s)))
              rest == tail % ulp
              down == tail - rest
              up == down + ulp
              nearest == IF 2 * rest < ulp THEN down
                         ELSE IF 2 * rest > ulp THEN up
                         ELSE IF down % (2 * ulp) = 0 THEN down ELSE up
          IN IF nearest < 1000000000 THEN front \o NineDigits(nearest)
             ELSE Successor(front) \o NineDigits(nearest - 1000000000)

\* parseInt(`${timestamp}${i}${j}`)
uniqueId(timestamp, i, j) == ParseInt(timestamp \o ToString(i) \o ToString(j))

\* timestamp is the numeral Date.now() returned
VectorRecord(timestamp, organizationId, i, j) ==
  [id |-> uniqueId(timestamp, i, j),
   page |-> i + 1, chunk |-> j + 1,
   metadataOrganizationId |-> organizationId,
   organizationId |-> organizationId]

\* the point insertDocuments makes of a record: the root organizationId of the
\* payload is overwritten, the rest of the payload is spread unchanged
PointOf(doc, normalizedId) == [doc EXCEPT !.organizationId = normalizedId]

\* the collection after an upsert: a point replaces the one with the same id
Upsert(points, batch) ==
  { p \in points : \A k \in 1..Len(batch) : batch[k].id # p.id }
    \cup { batch[k] : k \in 1..Len(batch) }

MatchingAnything(points, value) == points

\* the filter must: [{key: "organizationId", match: {value}}]
Matching(points, value) == { p \in points : p.organizationId = value }

\* what a query with a limit can return
Limited(points, limit) ==
  { R \in SUBSET points : Cardinality(R) = Min(limit, Cardinality(points)) }

\* the results searchDocumentsForUser can return
searchDocumentsForUser(points, organizationId, limit, kind) ==
  IF kind # "ok" \/ organizationId = "" THEN {{}}
  ELSE Limited(Matching(points, normalizeOrganizationId(organizationId)), limit)

\* what a listing request meets: the Qdrant client, the QDRANT_URL and
\* QDRANT_API_KEY variables, and how each of its four remote calls settles
ListingEnvs ==
  [client : BOOLEAN, credentials : BOOLEAN, direct : {"ok", "fails"},
   search : {"ok", "fails"}, scroll : {"ok", "fails"}, fetch : {"ok", "fails"}]

\* the listings made while a document is uploaded: every call answers; the
\* direct scroll fails; the client is missing; every call fails
LookupEnvs ==
  { [client |-> TRUE, credentials |-> TRUE, direct |-> "ok", search |-> "ok",
     scroll |-> "ok", fetch |-> "ok"],
    [client |-> TRUE, credentials |-> TRUE, direct |-> "fails", search |-> "ok",
     scroll |-> "ok", fetch |-> "ok"],
    [client |-> FALSE, credentials |-> TRUE, direct |-> "ok", search |-> "ok",
     scroll |-> "ok", fetch |-> "ok"],
    NoListing }

\* the results of the variant of getDocumentsForUser that runs its three
\* strategies one after the other and returns at the first non-empty result
getDocumentsForUserInSequence(points, organizationId, env) ==
  LET m == Matching(points, normalizeOrganizationId(organizationId))
  IN IF ~env.client \/ ~env.credentials THEN {{}}
     ELSE IF env.direct = "ok" /\ m # {} THEN Limited(m, DirectScrollLimit)
     ELSE IF env.search = "ok" /\ m # {} THEN Limited(m, ZeroVectorSearchLimit)
     ELSE IF env.scroll = "ok" /\ m # {} THEN Limited(m, ClientScrollLimit)
     ELSE {{}}

\* the results getDocumentsForUser can return
getDocumentsForUser(points, organizationId, env) ==
  LET m == Matching(points, normalizeOrganizationId(organizationId))
  IN IF ~env.client \/ ~env.credentials THEN {{}}
     ELSE IF env.direct = "ok"
          THEN IF m # {} THEN Limited(m, DirectScrollLimit)
               ELSE IF env.search = "ok" THEN Limited(m, ZeroVectorSearchLimit)
               ELSE {{}}
          ELSE IF env.scroll = "ok" THEN Limited(m, ClientScrollLimit)
          ELSE {{}}

\* the results fetchDocumentsDirectly can return
fetchDocumentsDirectly(points, organizationId, env) ==
  IF ~env.credentials \/ env.fetch # "ok" THEN {{}}
  ELSE Limited(Matching(points, ReplaceOutside(IdChars, organizationId)),
               FetchDirectlyLimit)

\* findRelevantDocuments or another caller searches
Search(organizationId, limit, kind) ==
  /\ \E docs \in searchDocumentsForUser(collection, organizationId, limit, kind) :
       lookup' = [op |-> "search", organizationId |-> organizationId,
                  env |-> NoListing, first |-> docs, docs |-> docs]
  /\ UNCHANGED <<serverVars, call, split, collection, upload>>

\* GET /api/documents/:phone
ListDocuments(phone, env) ==
  /\ \E documentsRaw \in getDocumentsForUser(collection, phone, env) :
       IF documentsRaw = {}
       THEN \E docs \in fetchDocumentsDirectly(collection, phone, env) :
              lookup' = [op |-> "list", organizationId |-> phone, env |-> env,
                         first |-> documentsRaw, docs |-> docs]
       ELSE lookup' = [op |-> "list", organizationId |-> phone, env |-> env,
                       first |-> documentsRaw, docs |-> documentsRaw]
  /\ UNCHANGED <<serverVars, call, split, collection, upload>>

\* the uploaded documents: a first page split into some chunks and a second
\* page that is empty or full
Documents == { <<a, b>> : a \in 0..MaxChunksPerPage, b \in {0, MaxChunksPerPage} }

\* the documents uploaded while lookups go on
ShortDocuments == { <<1, 1>>, <<0, 2>> }

RECURSIVE SumUpTo(_, _)
SumUpTo(pages, n) == IF n = 0 THEN 0 ELSE pages[n] + SumUpTo(pages, n - 1)

\* the first chunk at or after page i, or the end of the document
RECURSIVE FirstChunkFrom(_, _)
FirstChunkFrom(pages, i) ==
  IF i >= Len(pages) THEN <<Len(pages), 0>>
  ELSE IF pages[i + 1] > 0 THEN <<i, 0>>
  ELSE FirstChunkFrom(pages, i + 1)

\* the chunks of the first n pages in the order of the two loops
RECURSIVE ChunksUpTo(_, _)
ChunksUpTo(pages, n) ==
  IF n = 0 THEN <<>>
  ELSE ChunksUpTo(pages, n - 1) \o [j \in 1..pages[n] |-> <<n - 1, j - 1>>]

AllChunks(pages) == ChunksUpTo(pages, Len(pages))

NextChunkSkippingPage(pages, i, j) == FirstChunkFrom(pages, i + 1)

NextChunk(pages, i, j) ==
  IF j + 1 < pages[i + 1] THEN <<i, j + 1>> ELSE FirstChunkFrom(pages, i + 1)

SuccessMessage(n) ==
  "File elaborato con successo: " \o ToString(n) \o " chunks creati"
FailureMessage(message) == "Errore durante l'elaborazione del file: " \o message

UploadErrors ==
  [noaccess |-> "Il file temporaneo non è accessibile: ENOENT",
   nokey |-> "GEMINI_API_KEY non trovata. Assicurati di averla impostata nel file .env",
   extractfails |-> "Invalid PDF structure",
   unlinkfails |-> "EPERM: operation not permitted, unlink"]

\* the messages of the 400 responses of POST /api/upload-pdf
NoFileMessage == "Nessun file caricato"
NoOrganizationMessage == "OrganizationId non specificato"

\* POST /api/upload-pdf answers 400 without calling handleFileUpload: multer
\* stored no file, or it stored one and the body has no organizationId
UploadPdfBadRequest(hasFile) ==
  /\ upload.pc = "idle"
  /\ upload' =
       [upload EXCEPT
          !.pc = "rejected",
          !.tempFile = hasFile,
          !.result = [success |-> FALSE,
                      message |-> IF hasFile THEN NoOrganizationMessage
                                  ELSE NoFileMessage,
                      recordsCount |-> -1]]
  /\ UNCHANGED <<serverVars, call, split, collection, lookup>>

\* POST /api/upload-pdf has stored the temporary file and calls handleFileUpload,
\* which runs processPDFForOrganization up to its first getEmbeddings call
handleFileUpload(organizationId, pages, outcome, timestamp) ==
  /\ upload.pc = "idle"
  /\ LET first == FirstChunkFrom(pages, 0)
         started == [upload EXCEPT !.organizationId = organizationId,
                                   !.pages = pages,
                                   !.tempFile = (outcome # "noaccess")]
     IN upload' =
          IF outcome # "ok"
          THEN [started EXCEPT !.pc = "failing", !.error = UploadErrors[outcome]]
          ELSE [started EXCEPT
                  !.timestamp = timestamp,
                  !.pc = IF first[1] < Len(pages) THEN "embedding" ELSE "unlinking",
                  !.i = first[1], !.j = first[2],
                  !.totalChunks = SumUpTo(pages, Min(first[1] + 1, Len(pages)))]
  /\ UNCHANGED <<serverVars, call, split, collection, lookup>>

\* one turn of the chunk loop: getEmbeddings settles for chunk j of page i
EmbedChunk(outcome) ==
  /\ upload.pc = "embedding"
  /\ LET next == NextChunk(upload.pages, upload.i, upload.j)
         vectorRecords ==
           IF outcome = "vector"
           THEN Append(upload.vectorRecords,
                       VectorRecord(upload.timestamp, upload.organizationId,
                                    upload.i, upload.j))
           ELSE upload.vectorRecords
         last == next[1] >= Len(upload.pages)
     IN upload' =
          [upload EXCEPT
             !.embedded = Append(@, <<upload.i, upload.j>>),
             !.successfulEmbeddings = IF outcome = "vector" THEN @ + 1 ELSE @,
             !.failedEmbeddings = IF outcome = "vector" THEN @ ELSE @ + 1,
             !.vectorRecords = vectorRecords,
             !.i = next[1], !.j = next[2],
             !.totalChunks = SumUpTo(upload.pages, Min(next[1] + 1, Len(upload.pages))),
             !.pc = IF ~last THEN "embedding"
                    ELSE IF Len(vectorRecords) > 0 THEN "inserting"
                    ELSE "unlinking"]
  /\ UNCHANGED <<serverVars, call, split, collection, lookup>>

\* insertDocuments up to its first upsert
insertDocuments(client) ==
  /\ upload.pc = "inserting"
  /\ upload' =
       IF ~client
       THEN [upload EXCEPT !.pc = "unlinking", !.inserted = BooleanValue(FALSE)]
       ELSE [upload EXCEPT
               !.pc = "upserting",
               !.points = [k \in 1..Len(upload.vectorRecords) |->
                             PointOf(upload.vectorRecords[k],
                                     normalizeOrganizationId(upload.organizationId))],
               !.at = 0, !.successCount = 0, !.errorCount = 0]
  /\ UNCHANGED <<serverVars, call, split, collection, lookup>>

\* points.slice(i, i + BATCH_SIZE) for i = 0, BATCH_SIZE, 2 * BATCH_SIZE, ...
Batches(points) ==
  [k \in 1..((Len(points) + BATCH_SIZE - 1) \div BATCH_SIZE) |->
     [at |-> (k - 1) * BATCH_SIZE,
      batch |-> SubSeq(points, (k - 1) * BATCH_SIZE + 1,
                       Min(k * BATCH_SIZE, Len(points)))]]

\* the number of points in the logged batches whose upsert settled as ok
RECURSIVE PointsSettled(_, _)
PointsSettled(upserts, ok) ==
  IF upserts = <<>> THEN 0
  ELSE (IF Head(upserts).ok = ok THEN Len(Head(upserts).batch) ELSE 0)
         + PointsSettled(Tail(upserts), ok)

UpsertBatchStoppingAtFailure(ok) ==
  /\ upload.pc = "upserting"
  /\ LET batch == SubSeq(upload.points, upload.at + 1,
                         Min(upload.at + BATCH_SIZE, Len(upload.points)))
         successCount == IF ok THEN upload.successCount + Len(batch)
                         ELSE upload.successCount
         last == ~ok \/ upload.at + BATCH_SIZE >= Len(upload.points)
     IN /\ collection' = IF ok THEN Upsert(collection, batch) ELSE collection
        /\ upload' =
             [upload EXCEPT
                !.upserts = Append(@, [at |-> upload.at, batch |-> batch, ok |-> ok]),
                !.successCount = successCount,
                !.errorCount = IF ok THEN @
                               ELSE @ + Min(BATCH_SIZE, Len(upload.points) - upload.at),
                !.at = @ + BATCH_SIZE,
                !.inserted = IF last THEN BooleanValue(successCount > 0) ELSE @,
                !.pc = IF last THEN "unlinking" ELSE "upserting"]
  /\ UNCHANGED <<serverVars, call, split, lookup>>

\* one turn of the batch loop: client.upsert settles for the batch at upload.at
UpsertBatch(ok) ==
  /\ upload.pc = "upserting"
  /\ LET batch == SubSeq(upload.points, upload.at + 1,
                         Min(upload.at + BATCH_SIZE, Len(upload.points)))
         successCount == IF ok THEN upload.successCount + Len(batch)
                         ELSE upload.successCount
         last == upload.at + BATCH_SIZE >= Len(upload.points)
     IN /\ collection' = IF ok THEN Upsert(collection, batch) ELSE collection
        /\ upload' =
             [upload EXCEPT
                !.upserts = Append(@, [at |-> upload.at, batch |-> batch, ok |-> ok]),
                !.successCount = successCount,
                !.errorCount = IF ok THEN @
                               ELSE @ + Min(BATCH_SIZE, Len(upload.points) - upload.at),
                !.at = @ + BATCH_SIZE,
                !.inserted = IF last THEN BooleanValue(successCount > 0) ELSE @,
                !.pc = IF last THEN "unlinking" ELSE "upserting"]
  /\ UNCHANGED <<serverVars, call, split, lookup>>

\* processPDFForOrganization has returned: fs.unlink, then the success result
UnlinkDone(ok) ==
  /\ upload.pc = "unlinking"
  /\ upload' =
       IF ok
       THEN [upload EXCEPT
               !.pc = "done", !.unlinks = @ + 1, !.tempFile = FALSE,
               !.result = [success |-> TRUE,
                           message |-> SuccessMessage(Len(upload.vectorRecords)),
                           recordsCount |-> Len(upload.vectorRecords)]]
       ELSE [upload EXCEPT !.pc = "failing", !.unlinks = @ + 1,
                           !.error = UploadErrors.unlinkfails]
  /\ UNCHANGED <<serverVars, call, split, collection, lookup>>

UploadFailedKeepingFile(ok) ==
  /\ upload.pc = "failing"
  /\ upload' =
       [upload EXCEPT
          !.pc = "done",
          !.result = [success |-> FALSE, message |-> FailureMessage(upload.error),
                      recordsCount |-> -1]]
  /\ UNCHANGED <<serverVars, call, split, collection, lookup>>

\* the catch block of handleFileUpload: fs.unlink, then the failure result
UploadFailed(ok) ==
  /\ upload.pc = "failing"
  /\ upload' =
       [upload EXCEPT
          !.pc = "done", !.unlinks = @ + 1,
          !.tempFile = IF ok THEN FALSE ELSE @,
          !.result = [success |-> FALSE, message |-> FailureMessage(upload.error),
                      recordsCount |-> -1]]
  /\ UNCHANGED <<serverVars, call, split, collection, lookup>>

\* points an earlier run stored for another owner
StoredPoint(organizationId, j) ==
  PointOf(VectorRecord(ToString(-TickMs), organizationId, 0, j),
          normalizeOrganizationId(organizationId))

PersistedCollections ==
  { {} } \cup { { StoredPoint(id, j) : j \in 0..1 } : id \in StoredIds }

InitIndex ==
  /\ InitServer
  /\ disk = [p \in Phones |-> NoConversation]
  /\ call = NoCall
  /\ collection \in PersistedCollections
  /\ upload = NoUpload
  /\ split = NoSplit
  /\ lookup = NoLookup

\* uploads alone
NextIndex ==
  \/ \E id \in UploadIds, pages \in Documents,
        outcome \in {"ok", "noaccess", "nokey", "extractfails"} :
       handleFileUpload(id, pages, outcome, ToString(now))
  \/ \E outcome \in {"vector", "null", "throws"} : EmbedChunk(outcome)
  \/ \E client \in BOOLEAN : insertDocuments(client)
  \/ \E ok \in BOOLEAN : UpsertBatch(ok)
  \/ \E ok \in BOOLEAN : UnlinkDone(ok)
  \/ \E ok \in BOOLEAN : UploadFailed(ok)
  \/ \E hasFile \in BOOLEAN : UploadPdfBadRequest(hasFile)

SpecIndex == InitIndex /\ [][NextIndex]_vars

\* searches and listings while a short document is uploaded
NextLookup ==
  \/ \E id \in UploadIds, pages \in ShortDocuments,
        outcome \in {"ok", "noaccess", "nokey", "extractfails"} :
       handleFileUpload(id, pages, outcome, ToString(now))
  \/ \E outcome \in {"vector", "null", "throws"} : EmbedChunk(outcome)
  \/ \E client \in BOOLEAN : insertDocuments(client)
  \/ \E ok \in BOOLEAN : UpsertBatch(ok)
  \/ \E ok \in BOOLEAN : UnlinkDone(ok)
  \/ \E ok \in BOOLEAN : UploadFailed(ok)
  \/ \E id \in LookupIds, limit \in {1, DefaultSearchLimit},
        kind \in {"ok", "badquery", "noclient", "throws"} : Search(id, limit, kind)
  \/ \E id \in LookupIds, env \in LookupEnvs : ListDocuments(id, env)

SpecLookup == InitIndex /\ [][NextLookup]_vars

\* collections left by earlier uploads of some of the owners
StoredCollections ==
  { UNION { { StoredPoint(id, j) : j \in 0..1 } : id \in ids } :
      ids \in SUBSET (UploadIds \cup StoredIds) }

InitListing ==
  /\ InitServer
  /\ disk = [p \in Phones |-> NoConversation]
  /\ call = NoCall
  /\ collection \in StoredCollections
  /\ upload = NoUpload
  /\ split = NoSplit
  /\ lookup = NoLookup

\* listings alone, with every combination of failures of the remote calls
NextListing ==
  \E id \in LookupIds, env \in ListingEnvs : ListDocuments(id, env)

SpecListing == InitListing /\ [][NextListing]_vars

(***************************************************************************)
(* SpecIds: one upload of a long document whose every step succeeds.       *)
(***************************************************************************)

\* the pages of the longest document and the chunks of its longest page
ManyPages == 12
ManyChunks == 13

\* a document of b + 1 pages with na chunks on page a, nb on page b, none elsewhere
PagesWith(a, na, b, nb) ==
  [k \in 1..(b + 1) |-> IF k = a + 1 THEN na ELSE IF k = b + 1 THEN nb ELSE 0]

PageIndexes == {0, 1, 10, ManyPages - 1}
ChunkCounts == {0, 2, ManyChunks - 2, ManyChunks}

LongDocuments ==
  { PagesWith(a, na, b, nb) :
      a \in PageIndexes, b \in PageIndexes, na \in ChunkCounts, nb \in ChunkCounts }

\* values of Date.now(): 2025-11-03 (below 2^54 / 10^4) and 2030-01-01 (above it)
Timestamps == { "1762128000000", "1893456000000" }

InitIds ==
  /\ InitServer
  /\ disk = [p \in Phones |-> NoConversation]
  /\ call = NoCall
  /\ collection = {}
  /\ upload = NoUpload
  /\ split = NoSplit
  /\ lookup = NoLookup

NextIds ==
  \/ \E id \in UploadIds, pages \in LongDocuments, timestamp \in Timestamps :
       handleFileUpload(id, pages, "ok", timestamp)
  \/ EmbedChunk("vector")
  \/ insertDocuments(TRUE)
  \/ UpsertBatch(TRUE)
  \/ UnlinkDone(TRUE)

SpecIds == InitIds /\ [][NextIds]_vars

(***************************************************************************)
(* SpecChunks: splitIntoChunks on its own, called once with each text.     *)
(***************************************************************************)

\* the longest texts span this many windows beyond the first
MaxWindows == 2

ChunkSize == 500
Overlap == 100
SentenceWindow == 100

Max(a, b) == IF a > b THEN a ELSE b

\* s.lastIndexOf(pattern) for a pattern of two characters: 0-based, -1 if absent
LastIndexOf(s, pattern) ==
  LET found == { k \in 0..(Len(s) - Len(pattern)) :
                   SubSeq(s, k + 1, k + Len(pattern)) = pattern }
  IN IF found = {} THEN -1 ELSE CHOOSE k \in found : \A other \in found : other <= k

SentenceMarks == << ". ", ".\n", "? ", "?\n", "! ", "!\n" >>

\* Math.max of the six lastIndexOf calls
SentenceEnd(lastPart) ==
  LET at == { LastIndexOf(lastPart, SentenceMarks[m]) : m \in 1..Len(SentenceMarks) }
  IN CHOOSE k \in at : \A other \in at : other <= k

\* text.slice(start, end): a negative index counts from the end of the text
SliceIndex(text, index) ==
  IF index < 0 THEN Max(Len(text) + index, 0) ELSE Min(index, Len(text))

SliceShort(text, start, end) ==
  SubSeq(text, SliceIndex(text, start) + 1, SliceIndex(text, end) - 1)

Slice(text, start, end) ==
  SubSeq(text, SliceIndex(text, start) + 1, SliceIndex(text, end))

\* a chunk: the string pushed, with the indexes it was sliced at and the place
\* in the text where that string begins
Chunk(text, startIndex, endIndex) ==
  [startIndex |-> startIndex, endIndex |-> endIndex,
   from |-> SliceIndex(text, startIndex),
   text |-> Slice(text, startIndex, endIndex)]

EndIndexBeyondWindow(text, chunkSize, startIndex) ==
  Min(startIndex + chunkSize + Overlap, Len(text))

\* the end of the window, with the sentence looked for in its last 200 characters
EndIndexInWiderWindow(text, chunkSize, startIndex) ==
  LET endIndex == Min(startIndex + chunkSize, Len(text))
  IN IF endIndex < Len(text)
     THEN LET lastPart == SubSeq(text, Max(endIndex - 2 * SentenceWindow, 0) + 1, endIndex)
              sentenceEnd == SentenceEnd(lastPart)
          IN IF sentenceEnd # -1 THEN endIndex - 2 * SentenceWindow + sentenceEnd + 2
             ELSE endIndex
     ELSE endIndex

\* the end of the window that starts at startIndex, moved back to the end of
\* a sentence found in its last 100 characters
EndIndex(text, chunkSize, startIndex) ==
  LET endIndex == Min(startIndex + chunkSize, Len(text))
  IN IF endIndex < Len(text)
     THEN LET lastPart == SubSeq(text, Max(endIndex - SentenceWindow, 0) + 1, endIndex)
              sentenceEnd == SentenceEnd(lastPart)
          IN IF sentenceEnd # -1 THEN endIndex - SentenceWindow + sentenceEnd + 2
             ELSE endIndex
     ELSE endIndex

\* the while loop from startIndex on
RECURSIVE SplitFrom(_, _, _, _)
SplitFrom(text, chunkSize, overlap, startIndex) ==
  IF ~(startIndex < Len(text)) THEN <<>>
  ELSE LET endIndex == EndIndex(text, chunkSize, startIndex)
           next == endIndex - overlap
       IN IF next + chunkSize > Len(text) /\ next < Len(text)
          THEN << Chunk(text, startIndex, endIndex), Chunk(text, next, Len(text)) >>
          ELSE << Chunk(text, startIndex, endIndex) >>
                 \o SplitFrom(text, chunkSize, overlap, next)

splitIntoChunks(text, chunkSize, overlap) ==
  IF text = "" THEN <<>> ELSE SplitFrom(text, chunkSize, overlap, 0)

\* the first n characters of a text without sentence marks
Plain(n) == SubSeq(Repeat("abcdefghij", (n + 9) \div 10), 1, n)

\* text with the two characters at 0-based place at replaced by mark
Marked(text, at, mark) ==
  IF at + Len(mark) <= Len(text)
  THEN SubSeq(text, 1, at) \o mark \o SubSeq(text, at + Len(mark) + 1, Len(text))
  ELSE text

\* the lengths explored: around the overlap, around the window, and around
\* each further window
TextLengths ==
  {0, 1, Overlap - 1, Overlap, Overlap + 1, ChunkSize - 1, ChunkSize, ChunkSize + 1}
    \cup { ChunkSize + k * (ChunkSize - Overlap) + d :
             k \in 0..MaxWindows, d \in {-1, 0, 1, Overlap, 250} }

\* where sentences end: nowhere, inside the last 100 characters of the first
\* window, at its very end, at its start together with the second window,
\* and before the last 100 characters of the first window
MarkPlaces ==
  { <<>>, <<[at |-> 450, mark |-> ". "]>>, <<[at |-> 498, mark |-> "?\n"]>>,
    <<[at |-> 400, mark |-> "! "], [at |-> 820, mark |-> ".\n"]>>,
    <<[at |-> 350, mark |-> ". "]>> }

RECURSIVE MarkedAll(_, _)
MarkedAll(text, places) ==
  IF places = <<>> THEN text
  ELSE MarkedAll(Marked(text, Head(places).at, Head(places).mark), Tail(places))

ChunkTexts == { MarkedAll(Plain(n), places) : n \in TextLengths, places \in MarkPlaces }

InitChunks ==
  /\ InitServer
  /\ disk = [p \in Phones |-> NoConversation]
  /\ call = NoCall
  /\ collection = {}
  /\ upload = NoUpload
  /\ lookup = NoLookup
  /\ split \in [text : ChunkTexts, done : {FALSE}, chunks : {<<>>},
                 startIndex : {0}, exit : {"none"}]

\* the call returns
Split ==
  /\ ~split.done
  /\ split' = [split EXCEPT !.done = TRUE,
                            !.chunks = splitIntoChunks(split.text, ChunkSize, Overlap)]
  /\ UNCHANGED <<serverVars, call, collection, upload, lookup>>

NextChunks == Split

SpecChunks == InitChunks /\ [][NextChunks]_vars

(***************************************************************************)
(* SpecChunkLoop: splitIntoChunks one turn of its while loop at a time.    *)
(***************************************************************************)

\* the guard on the text, and then one test of the loop condition with the
\* turn it admits: the chunk is pushed, startIndex moves, and the tail test
\* pushes the rest and breaks
SplitStep(chunkSize, overlap) ==
  /\ ~split.done
  /\ split' =
       IF split.text = ""
       THEN [split EXCEPT !.done = TRUE, !.exit = "empty"]
       ELSE IF ~(split.startIndex < Len(split.text))
       THEN [split EXCEPT !.done = TRUE, !.exit = "while"]
       ELSE LET endIndex == EndIndex(split.text, chunkSize, split.startIndex)
                pushed == Append(split.chunks,
                                 Chunk(split.text, split.startIndex, endIndex))
                next == endIndex - overlap
            IN IF next + chunkSize > Len(split.text) /\ next < Len(split.text)
               THEN [split EXCEPT
                       !.chunks = Append(pushed, Chunk(split.text, next, Len(split.text))),
                       !.startIndex = next, !.done = TRUE, !.exit = "tail"]
               ELSE [split EXCEPT !.chunks = pushed, !.startIndex = next]
  /\ UNCHANGED <<serverVars, call, collection, upload, lookup>>

NextChunkLoop == SplitStep(ChunkSize, Overlap)

\* the call runs to its end: nothing else is scheduled while the loop runs
SpecChunkLoop == InitChunks /\ [][NextChunkLoop]_vars /\ WF_vars(NextChunkLoop)

(***************************************************************************)
(* The idle / closing life cycle (checked under Spec and SpecFair).        *)
(***************************************************************************)

\* C1: when a closing timer fires for a conversation that received an inbound
\* message after the warning that scheduled the timer (its lastActivity is not
\* older than the warning, which was sent InactivityLimit before the timer's due
\* time), the timer does nothing: no call of sendTwilioMessage is made.
C1_StaleTimerDoesNothing ==
  [][ ( /\ Len(timers) > 0
        /\ timers' = Tail(timers)
        /\ conversations[Head(timers).phone].lastActivity
             >= Head(timers).due - InactivityLimit )
      => outbox' = outbox ]_vars

\* C2: when sendClosingMessage resumes after its send and the conversation was
\* reset by an inbound message at this same instant (the send started and the
\* inbound was handled at this instant; both orders of the two reach this state),
\* the conversation is left with closed = false and inactivityMessageSent = false.
C2_InboundResetWins ==
  [][ \A s \in inflight :
        ( /\ s.kind = "closing"
          /\ s \notin inflight'
          /\ conversations[s.phone].lastActivity = now
          /\ ~conversations[s.phone].closed
          /\ ~conversations[s.phone].inactivityMessageSent )
        => ( /\ ~conversations'[s.phone].closed
             /\ ~conversations'[s.phone].inactivityMessageSent ) ]_vars

\* C3: a run of the sweep starts exactly one warning send for each conversation
\* that is idle for InactivityLimit, not warned and not closed, and sets its
\* inactivityMessageSent; it starts none for any other conversation; and at most
\* one warning is ever started after the last inbound message of a conversation.
C3_OneWarningPerIdlePeriod ==
  /\ [](\A p \in Phones :
          BagCardinality([e \in {x \in BagToSet(outbox) :
                                   /\ x.kind = "automatic" /\ x.to = p
                                   /\ x.at > conversations[p].lastActivity}
                            |-> outbox[e]]) <= 1)
  /\ [][ nextSweep' # nextSweep =>
         \A p \in Phones :
           IF /\ conversations[p].exists
              /\ conversations[p].lastActivity # NoTime
              /\ now - conversations[p].lastActivity >= InactivityLimit
              /\ ~conversations[p].inactivityMessageSent
              /\ ~conversations[p].closed
           THEN /\ conversations'[p].inactivityMessageSent
                /\ SendsOf(outbox', "automatic", p) = SendsOf(outbox, "automatic", p) + 1
           ELSE SendsOf(outbox', "automatic", p) = SendsOf(outbox, "automatic", p) ]_vars

\* a sweep has run at a later instant than the warning, the conversation is still
\* warned and open, and only that one warning was started
C3_Witness ==
  \E e \in BagToSet(outbox) :
    /\ e.kind = "automatic"
    /\ e.at < now
    /\ nextSweep > now
    /\ conversations[e.to].lastActivity < e.at
    /\ conversations[e.to].inactivityMessageSent
    /\ ~conversations[e.to].closed
    /\ SendsOf(outbox, "automatic", e.to) = 1

\* C4: the step in which the webhook handles an inbound message with a non-empty
\* body leaves the conversation of its sender with inactivityMessageSent = false,
\* closed = false, lastActivity = now, and the message appended as a 'received'
\* entry, whatever the state of the conversation was.
C4_InboundReactivates ==
  [][ \A h \in 1..NumHandlers :
        (handlers[h].pc = "idle" /\ handlers'[h].pc = "generating") =>
          LET p == handlers'[h].from
          IN /\ handlers'[h].text # ""
             /\ conversations'[p].exists
             /\ ~conversations'[p].inactivityMessageSent
             /\ ~conversations'[p].closed
             /\ conversations'[p].lastActivity = now
             /\ conversations'[p].messages
                  = Append(conversations[p].messages,
                           [direction |-> "received", content |-> handlers'[h].text,
                            timestamp |-> now, automatic |-> FALSE]) ]_vars

\* an inbound message has just been handled for a conversation that was closed
C4_Witness ==
  \E h \in 1..NumHandlers :
    /\ handlers[h].pc = "generating"
    /\ conversations[handlers[h].from].closedAt # NoTime
    /\ ~conversations[handlers[h].from].closed
    /\ ~conversations[handlers[h].from].inactivityMessageSent
    /\ conversations[handlers[h].from].lastActivity = now

\* C5: every warning gets one closing timer and one closing notice: the notices
\* sent plus the timers pending equal the warnings started, and a notice is sent
\* no earlier than InactivityLimit after a warning; when sendClosingMessage
\* resumes, the conversation is closed with closedAt = now and the notice is its
\* last message, an automatic 'sent' entry; a run of the sweep closes nothing and
\* sends no notice; and a warned conversation whose timer is due within the time
\* explored is eventually closed, unless an inbound message resets it.
C5_WarningLeadsToOneClose ==
  /\ [](\A p \in Phones :
          /\ SendsOf(outbox, "closing", p)
               + Cardinality({i \in 1..Len(timers) : timers[i].phone = p})
             = SendsOf(outbox, "automatic", p)
          /\ \A e \in BagToSet(outbox) :
               (e.kind = "closing" /\ e.to = p) =>
                 \E w \in BagToSet(outbox) :
                   /\ w.kind = "automatic" /\ w.to = p
                   /\ e.at >= w.at + InactivityLimit)
  /\ [][ \A s \in inflight :
           (s.kind = "closing" /\ s \notin inflight') =>
             /\ conversations'[s.phone].closed
             /\ conversations'[s.phone].closedAt = now
             /\ conversations'[s.phone].messages
                  = Append(conversations[s.phone].messages,
                           [direction |-> "sent", content |-> ClosingMessage,
                            timestamp |-> now, automatic |-> TRUE]) ]_vars
  /\ [][ nextSweep' # nextSweep =>
           \A p \in Phones :
             /\ conversations'[p].closed = conversations[p].closed
             /\ conversations'[p].closedAt = conversations[p].closedAt
             /\ SendsOf(outbox', "closing", p) = SendsOf(outbox, "closing", p) ]_vars
  /\ \A p \in Phones :
       ( /\ conversations[p].inactivityMessageSent
         /\ ~conversations[p].closed
         /\ \E i \in 1..Len(timers) : timers[i].phone = p /\ timers[i].due <= MaxTime )
       ~> (conversations[p].closed \/ ~conversations[p].inactivityMessageSent)

\* a warned conversation that received nothing since was closed by its timer:
\* one warning, one notice, InactivityLimit apart
C5_Witness ==
  \E p \in Phones :
    /\ conversations[p].closed
    /\ conversations[p].closedAt = now
    /\ conversations[p].inactivityMessageSent
    /\ SendsOf(outbox, "automatic", p) = 1
    /\ SendsOf(outbox, "closing", p) = 1
    /\ conversations[p].messages[Len(conversations[p].messages)].content = ClosingMessage

C7_ManualModeSkipsModel ==
  [][ \A h \in 1..NumHandlers :
        (handlers[h].pc = "idle" /\ handlers'[h].pc = "generating")
          => appSettings.responseMode = "auto" ]_vars

\* C8: each webhook request with a non-empty body calls sendTwilioMessage at most
\* once for the interim notice and exactly once for the reply, to its sender, as
\* soon as generation and the pause are over and never before; the body of the
\* reply is one of the fixed fallback strings or the text of a completion, whole
\* or cut to ReplyCap characters plus the marker; and a request that is waiting
\* for its reply eventually makes that one call.
C8_OneDisplayableReply ==
  /\ [](\A h \in 1..MaxWebhooks :
          /\ SendsBy(outbox, "thinking", h) <= 1
          /\ SendsBy(outbox, "reply", h)
               = (IF handlers[h].pc \in {"sending", "done"} THEN 1 ELSE 0)
          /\ \A e \in BagToSet(outbox) :
               (e.kind = "reply" /\ e.handler = h) =>
                 /\ e.to = handlers[h].from
                 /\ \/ e.body \in FixedReplies
                    \/ \E env \in WebhookEnvs :
                         /\ env.completion.kind = "text"
                         /\ env.completion.text # ""
                         /\ \/ e.body = env.completion.text
                            \/ /\ Len(env.completion.text) > ReplyCap
                               /\ e.body = SubSeq(env.completion.text, 1, ReplyCap)
                                             \o "...")
  /\ \A h \in 1..MaxWebhooks :
       (handlers[h].pc = "generating") ~> (SendsBy(outbox, "reply", h) = 1)

\* a request whose generation failed after the interim notice went out has sent
\* the fixed apology as its one reply
C8_Witness ==
  \E h \in 1..MaxWebhooks :
    /\ handlers[h].pc = "done"
    /\ handlers[h].thinkingMessageSent
    /\ SendsBy(outbox, "thinking", h) = 1
    /\ SendsBy(outbox, "reply", h) = 1
    /\ handlers[h].response = WebhookErrorFallback

(***************************************************************************)
(* generateAIResponse (checked under SpecReply).                           *)
(***************************************************************************)

\* C9: every call of generateAIResponse resolves, to a string that is neither
\* empty nor blank.
C9_AlwaysResolvesDisplayable ==
  call.done =>
    /\ call.result.status = "resolved"
    /\ call.result.value # ""
    /\ ~IsBlank(call.result.value)

C11_RetrievalFailureMeansNoContext ==
  ( /\ call.done
    /\ call.env.apiKey
    /\ call.userPhone # ""
    /\ \/ call.env.embed.kind = "null"
       \/ call.env.embed.kind = "throws" /\ call.env.embed.err.type # "undefined"
       \/ call.env.embed.kind = "vector" /\ call.env.search.kind \in {"empty", "throws"} )
  => /\ CompletionPrompt(call.prompt, call.userPhone, call.env)
          = call.prompt \o "\n\nLimita la tua risposta a un massimo di 1500 caratteri."
     /\ (call.env.completion.kind = "text" /\ call.env.completion.text = "Ciao!")
          => call.result = Resolved("Ciao!")

\* the search rejected and the reply is the completion's text all the same
C11_Witness ==
  /\ call.done
  /\ call.env.apiKey
  /\ call.userPhone = "p1"
  /\ call.env.embed.kind = "vector"
  /\ call.env.search.kind = "throws"
  /\ call.env.completion.text = "Ciao!"
  /\ call.result = Resolved("Ciao!")

\* C12: when the completion is invoked, a call that hits the 30 s bound returns
\* the 'taking too long' apology and a call that the provider fails with an
\* error object returns the generic apology, never the other way round.
C12_TimeoutToldFromOtherErrors ==
  ( /\ call.done
    /\ CompletionPrompt(call.prompt, call.userPhone, call.env) # "" )
  => /\ call.env.completion.kind = "timeout" => call.result = Resolved(TimeoutApology)
     /\ (call.env.completion.kind = "rejects" /\ call.env.completion.err.type = "Error")
          => call.result = Resolved(GenericApology)

(***************************************************************************)
(* The document index (checked under SpecLookup and SpecIndex).            *)
(***************************************************************************)

\* C13: a search or a listing scoped to an owner id never returns a chunk that
\* was stored under an id with a different normalized form, whichever strategy
\* of the listing answered and whatever the limit was.
C13_LookupsStayWithinOwner ==
  \A p \in lookup.docs :
    normalizeOrganizationId(p.metadataOrganizationId)
      = normalizeOrganizationId(lookup.organizationId)

\* a lookup returned chunks while the collection held chunks of another owner
C13_Witness ==
  /\ lookup.docs # {}
  /\ \E q \in collection :
       normalizeOrganizationId(q.metadataOrganizationId)
         # normalizeOrganizationId(lookup.organizationId)

\* a listing that meets no failure
ListingAnswered ==
  [client |-> TRUE, credentials |-> TRUE, direct |-> "ok", search |-> "ok",
   scroll |-> "ok", fetch |-> "ok"]

\* C14 (as written): every owner identifier stored with a chunk, the copy in the
\* metadata of the payload included, is in normalized form.
C14_EveryStoredOwnerNormalized ==
  \A p \in collection :
    IsNormalized(p.organizationId) /\ IsNormalized(p.metadataOrganizationId)

\* C14 (amended): the owner identifier that the filters match, the root
\* organizationId of the payload, is stored in normalized form; every search and
\* listing filters on the identifier normalized by the same idempotent function;
\* so a chunk ingested under a raw id is found by a search or a listing under
\* the same raw id whenever the query is answered and the limit leaves room.
C14_FilteredOwnerNormalized ==
  /\ \A p \in collection :
       /\ IsNormalized(p.organizationId)
       /\ p.organizationId = normalizeOrganizationId(p.metadataOrganizationId)
       /\ \A R \in searchDocumentsForUser(collection, p.metadataOrganizationId,
                                          Cardinality(collection), "ok") : p \in R
       /\ \A R \in getDocumentsForUser(collection, p.metadataOrganizationId,
                                       ListingAnswered) : p \in R
       /\ \A R \in fetchDocumentsDirectly(collection, p.metadataOrganizationId,
                                          ListingAnswered) : p \in R
  /\ \A id \in LookupIds :
       normalizeOrganizationId(normalizeOrganizationId(id)) = normalizeOrganizationId(id)
  /\ \A p \in lookup.docs : p.organizationId = normalizeOrganizationId(lookup.organizationId)

\* chunks uploaded under an id that is not its own normalized form were stored
\* and a lookup under the same raw id returned one of them
C14_Witness ==
  /\ upload.pc = "done" /\ upload.successCount > 0
  /\ upload.organizationId # normalizeOrganizationId(upload.organizationId)
  /\ lookup.organizationId = upload.organizationId
  /\ \E p \in lookup.docs : p.metadataOrganizationId = upload.organizationId

\* C15: when handleFileUpload has returned, its result has success = true
\* exactly when at least one chunk was embedded and stored in the collection;
\* otherwise it has success = false and carries an error message.
C15_SuccessMeansStored ==
  upload.pc = "done" =>
    /\ upload.result.success <=> upload.successCount > 0
    /\ ~upload.result.success => upload.result.message = FailureMessage(upload.error)

\* an upload reported success although nothing was stored
C15_Witness ==
  /\ upload.pc = "done" /\ upload.result.success
  /\ upload.successCount = 0 /\ upload.totalChunks > 0

\* C16: for a document of N chunks of which F fail to embed, the chunk loop
\* embeds the chunks one at a time in page and chunk order and does not stop at
\* a failure; it ends with successfulEmbeddings + failedEmbeddings = N and
\* N - F records, and an upload that meets no other error reports N - F chunks
\* with success = true.
C16_EveryChunkEmbeddedInOrder ==
  LET all == AllChunks(upload.pages)
      N == SumUpTo(upload.pages, Len(upload.pages))
      F == upload.failedEmbeddings
      extracted == upload.error \notin {UploadErrors.noaccess, UploadErrors.nokey,
                                        UploadErrors.extractfails}
  IN /\ upload.pc = "embedding" =>
          /\ Len(upload.embedded) < N
          /\ upload.embedded = SubSeq(all, 1, Len(upload.embedded))
          /\ <<upload.i, upload.j>> = all[Len(upload.embedded) + 1]
          /\ upload.successfulEmbeddings + F = Len(upload.embedded)
          /\ Len(upload.vectorRecords) = upload.successfulEmbeddings
     /\ (upload.pc \notin {"idle", "embedding"} /\ extracted) =>
          /\ upload.embedded = all
          /\ upload.totalChunks = N
          /\ upload.successfulEmbeddings + F = N
          /\ Len(upload.vectorRecords) = N - F
          /\ \A k \in 1..(N - F) :
               \E c \in 1..N : upload.vectorRecords[k].page = all[c][1] + 1
                                /\ upload.vectorRecords[k].chunk = all[c][2] + 1
     /\ (upload.pc = "done" /\ upload.error = "") =>
          /\ upload.result.success
          /\ upload.result.recordsCount = N - F
          /\ upload.result.message = SuccessMessage(N - F)

\* an upload of two batches' worth of chunks, some of which failed to embed,
\* reported the others
C16_Witness ==
  /\ upload.pc = "done" /\ upload.result.success
  /\ upload.failedEmbeddings >= 2 /\ upload.successfulEmbeddings >= 2
  /\ upload.totalChunks > BATCH_SIZE
  /\ upload.result.recordsCount = upload.totalChunks - upload.failedEmbeddings

\* C17: handleFileUpload has called fs.unlink on the temporary file at least
\* once before it returns, after a successful processing as well as after an
\* error; whenever a deletion succeeded the file is gone.
C17_UnlinkAttemptedOnEveryPath ==
  /\ upload.pc = "done" => upload.unlinks >= 1
  /\ upload.pc = "failing" => upload.result = NoUpload.result
  /\ (upload.pc = "done" /\ upload.result.success) => ~upload.tempFile

\* an upload whose text extraction failed has returned its failure result
C17_Witness ==
  /\ upload.pc = "done" /\ ~upload.result.success
  /\ upload.error = UploadErrors.extractfails
  /\ upload.unlinks = 1 /\ ~upload.tempFile

\* C18 (as written): insertDocuments submits the points in batches of at most 5,
\* one at a time and in order, attempts every batch once whether or not an
\* earlier one failed, and returns the number of points of the batches that
\* succeeded.
C18_ReturnsNumberStored ==
  LET batches == Batches(upload.points)
      n == Len(upload.upserts)
  IN /\ upload.pc = "upserting" => n < Len(batches) /\ upload.at = n * 5
     /\ \A k \in 1..n :
          /\ upload.upserts[k].at = batches[k].at
          /\ upload.upserts[k].batch = batches[k].batch
          /\ Len(upload.upserts[k].batch) <= 5
     /\ (upload.inserted.type # "undefined" /\ upload.points # <<>>) =>
          /\ n = Len(batches)
          /\ upload.successCount + upload.errorCount = Len(upload.points)
          /\ upload.inserted = NumberValue(PointsSettled(upload.upserts, TRUE))

\* C18 (amended): insertDocuments submits the points in batches of at most 5,
\* one at a time and in order, attempts every batch once whether or not an
\* earlier one failed, counts the points of the batches that succeeded and of
\* those that failed (the two counts add up to the number of points), and
\* returns the boolean successCount > 0.
C18_ReturnsWhetherAnyStored ==
  LET batches == Batches(upload.points)
      n == Len(upload.upserts)
  IN /\ upload.pc = "upserting" => n < Len(batches) /\ upload.at = n * 5
     /\ \A k \in 1..n :
          /\ upload.upserts[k].at = batches[k].at
          /\ upload.upserts[k].batch = batches[k].batch
          /\ Len(upload.upserts[k].batch) <= 5
     /\ upload.successCount = PointsSettled(upload.upserts, TRUE)
     /\ upload.errorCount = PointsSettled(upload.upserts, FALSE)
     /\ (upload.inserted.type # "undefined" /\ upload.points # <<>>) =>
          /\ n = Len(batches)
          /\ upload.successCount + upload.errorCount = Len(upload.points)
          /\ upload.inserted = BooleanValue(upload.successCount > 0)

\* the first of two batches failed, the second was stored, and insertDocuments
\* returned
C18_Witness ==
  /\ upload.inserted = BooleanValue(TRUE)
  /\ Len(upload.upserts) = 2
  /\ ~upload.upserts[1].ok /\ upload.upserts[2].ok
  /\ upload.errorCount = BATCH_SIZE
  /\ \A k \in 1..Len(upload.upserts[2].batch) : upload.upserts[2].batch[k] \in collection

(***************************************************************************)
(* Persistence and creation of conversations (checked under Spec).         *)
(***************************************************************************)

\* C19: every step that changes the conversation table writes the whole table
\* to conversations.json before its handler yields: whenever control is back
\* in the event loop the table in memory equals the persisted one.
C19_TablePersistedAtEveryYield == conversations = disk

\* the sweep has flagged an idle conversation and the flag is not on disk
C19_Witness ==
  \E p \in Phones :
    /\ conversations[p].exists /\ disk[p].exists
    /\ conversations[p].inactivityMessageSent
    /\ ~disk[p].inactivityMessageSent

\* C20: only the first inbound message of an unseen number adds a key to the
\* conversation table: every conversation in the table has a lastActivity
\* timestamp and at least one received message.
C20_OnlyInboundCreates ==
  \A p \in Phones :
    conversations[p].exists =>
      /\ conversations[p].lastActivity # NoTime
      /\ \E k \in 1..Len(conversations[p].messages) :
           conversations[p].messages[k].direction = "received"

\* the table holds a conversation that an operator send created: it has no
\* lastActivity and no received message
C20_Witness ==
  \E p \in Phones :
    /\ conversations[p].exists
    /\ conversations[p].lastActivity = NoTime
    /\ Len(conversations[p].messages) = 1
    /\ conversations[p].messages[1].direction = "sent"
    /\ ~conversations[p].messages[1].automatic

(***************************************************************************)
(* The conversation table under interleaving (checked under Spec).         *)
(***************************************************************************)

\* C21: under every interleaving of webhook requests, operator sends, sweeps and
\* timers, no step removes a conversation from the table and every step leaves
\* the messages a conversation already had in place, in the same order and
\* unmodified: the old sequence is a prefix of the new one.
C21_MessagesAppendOnly ==
  [][\A p \in Phones :
       conversations[p].exists =>
         /\ conversations'[p].exists
         /\ Len(conversations'[p].messages) >= Len(conversations[p].messages)
         /\ SubSeq(conversations'[p].messages, 1, Len(conversations[p].messages))
              = conversations[p].messages]_vars

\* a conversation holds an inbound message followed by an operator message and
\* an automatic one
C21_Witness ==
  \E p \in Phones :
    LET m == conversations[p].messages
    IN /\ Len(m) >= 3
       /\ m[1].direction = "received"
       /\ \E k \in 2..Len(m) : m[k].direction = "sent" /\ m[k].automatic
       /\ \E k \in 2..Len(m) : m[k].direction = "sent" /\ m[k].content = OperatorMessage

\* C22: a step that appends an outbound message other than the closing notice
\* (a reply, an operator message, the idle warning) leaves lastActivity,
\* inactivityMessageSent and closed of the conversation as they were; these
\* fields change only in a step that appends an inbound message, in the sweep
\* (which sets inactivityMessageSent and nothing else) and in the close (which
\* sets closed together with the closing notice).
C22_OutboundKeepsIdleTracking ==
  [][\A p \in Phones :
       LET old == conversations[p]
           new == conversations'[p]
           n == Len(old.messages)
           appended == Len(new.messages) = n + 1
           same == /\ new.lastActivity = old.lastActivity
                   /\ new.inactivityMessageSent = old.inactivityMessageSent
                   /\ new.closed = old.closed
       IN old.exists =>
            /\ ( /\ appended
                 /\ new.messages[n + 1].direction = "sent"
                 /\ new.messages[n + 1].content # ClosingMessage ) => same
            /\ ~same =>
                 \/ appended /\ new.messages[n + 1].direction = "received"
                 \/ /\ new.messages = old.messages
                    /\ ~old.inactivityMessageSent /\ new.inactivityMessageSent
                    /\ new.lastActivity = old.lastActivity /\ new.closed = old.closed
                 \/ /\ appended /\ new.messages[n + 1].content = ClosingMessage
                    /\ ~old.closed /\ new.closed
                    /\ new.lastActivity = old.lastActivity
                    /\ new.inactivityMessageSent = old.inactivityMessageSent]_vars

\* the idle warning was appended to a flagged conversation after an operator
\* message, and the conversation is still flagged, open and as old as it was
C22_Witness ==
  \E p \in Phones :
    LET c == conversations[p]
        n == Len(c.messages)
    IN /\ c.exists /\ n >= 3
       /\ c.messages[n].content = AutomaticMessage
       /\ c.messages[n - 1].content = OperatorMessage
       /\ c.inactivityMessageSent /\ ~c.closed
       /\ c.lastActivity < c.messages[n].timestamp

(***************************************************************************)
(* The settings singleton (checked under SpecSettings).                    *)
(***************************************************************************)

\* C23: in every reachable state the responseMode of the settings is "auto" or
\* "manual", whatever bodies were posted to /api/settings.
C23_ResponseModeIsAutoOrManual == appSettings.responseMode \in {"auto", "manual"}

\* a posted mode that is neither "auto" nor "manual" is the mode in force
C23_Witness == appSettings.responseMode = "off"

(***************************************************************************)
(* Restart (checked under SpecRestart).                                    *)
(***************************************************************************)

\* C24: a conversation loaded at startup with inactivityMessageSent = true and
\* closed = false has no closing timer; as long as no inbound message arrives
\* for it the sweep does not warn it again and nothing closes it.
C24_ReloadedWarnedStaysOpen ==
  \A p \in Phones :
    LET c == conversations[p]
        received == { k \in 1..Len(c.messages) : c.messages[k].direction = "received" }
    IN Cardinality(received) = 1 =>
         /\ c.inactivityMessageSent /\ ~c.closed /\ c.closedAt = NoTime
         /\ SendsOf(outbox, "automatic", p) = 0
         /\ SendsOf(outbox, "closing", p) = 0
         /\ \A i \in 1..Len(timers) : timers[i].phone # p

\* InactivityLimit after the saved warning and later, the reloaded
\* conversation is still warned and open
C24_Witness ==
  \E p \in Phones :
    LET c == conversations[p]
    IN /\ now >= 2 * InactivityLimit + SweepInterval
       /\ nextSweep > now
       /\ c.inactivityMessageSent /\ ~c.closed
       /\ \A k \in 2..Len(c.messages) : c.messages[k].direction = "sent"

(***************************************************************************)
(* The sweep and conversations of any origin (checked under SpecFair).     *)
(***************************************************************************)

\* C25: a conversation in the table, whichever operation created it, that has
\* had no inbound message for InactivityLimit (counted from its last inbound
\* message or, if it never had one, from its first message) and is neither
\* warned nor closed is warned by the sweep: every run of the sweep that finds
\* such a conversation leaves it warned, so it is warned as soon as the sweep
\* ticks.
C25_IdleConversationWarnedBySweep ==
  [][nextSweep' # nextSweep =>
       \A p \in Phones :
         ( /\ conversations[p].exists
           /\ ~conversations[p].inactivityMessageSent
           /\ ~conversations[p].closed
           /\ now - (IF conversations[p].lastActivity # NoTime
                     THEN conversations[p].lastActivity
                     ELSE conversations[p].messages[1].timestamp) >= InactivityLimit )
         => conversations'[p].inactivityMessageSent]_vars

\* a conversation created by an operator send is idle for InactivityLimit, the
\* sweep has run at this instant, and the conversation is not warned
C25_Witness ==
  \E p \in Phones :
    /\ conversations[p].exists
    /\ conversations[p].lastActivity = NoTime
    /\ now - conversations[p].messages[1].timestamp >= InactivityLimit
    /\ nextSweep > now
    /\ ~conversations[p].inactivityMessageSent
    /\ SendsOf(outbox, "automatic", p) = 0

(***************************************************************************)
(* The strategies of a listing (checked under SpecListing).                *)
(***************************************************************************)

\* C26: getDocumentsForUser tries the direct scroll, then the zero-vector
\* search, then the client scroll, goes on to the next strategy whenever one
\* fails or yields nothing, returns the first non-empty result and returns
\* nothing only when all three fail or yield nothing: every listing returns what
\* the three strategies run one after the other return.
C26_StrategiesInFixedOrder ==
  [][(lookup' # lookup /\ lookup'.op = "list") =>
       lookup'.first \in getDocumentsForUserInSequence(collection,
                                                       lookup'.organizationId,
                                                       lookup'.env)]_vars

\* the direct scroll and the client scroll failed, the zero-vector search could
\* answer, the owner has chunks, and getDocumentsForUser returned nothing
C26_Witness ==
  /\ lookup.op = "list"
  /\ lookup.env.client /\ lookup.env.credentials
  /\ lookup.env.direct = "fails" /\ lookup.env.scroll = "fails"
  /\ lookup.env.search = "ok"
  /\ Matching(collection, normalizeOrganizationId(lookup.organizationId)) # {}
  /\ lookup.first = {}

(***************************************************************************)
(* The bodies handed to Twilio (checked under SpecSend).                   *)
(***************************************************************************)

\* C27: the body sendTwilioMessage hands to Twilio is never longer than 1500
\* characters plus the "..." marker; a message of at most 1500 characters is
\* handed over unchanged, a longer one is cut to its first 1500 characters and
\* the marker; truncating a truncated body again leaves it unchanged, so a
\* capped reply of generateAIResponse is sent as it is.
C27_BodyCappedOnce ==
  /\ \A e \in BagToSet(outbox) :
       /\ Len(e.body) <= 1500 + Len("...")
       /\ TwilioBody(e.body) = e.body
       /\ e.kind = "reply" => e.body = handlers[e.handler].response
  /\ \A s \in inflight :
       s.kind = "operator" =>
         \E e \in BagToSet(outbox) :
           /\ e.kind = "operator" /\ e.to = s.phone
           /\ e.body = IF Len(s.message) <= 1500 THEN s.message
                       ELSE SubSeq(s.message, 1, 1500) \o "..."
           /\ s.message = Repeat("ab", 750) \o "..." => e.body = s.message

\* a long operator message was cut and a capped reply was sent as it was
C27_Witness ==
  /\ \E s \in inflight : s.kind = "operator" /\ Len(s.message) = 1600
  /\ \E e \in BagToSet(outbox) : e.kind = "operator" /\ Len(e.body) = 1503
  /\ \E e \in BagToSet(outbox) :
       /\ e.kind = "reply" /\ Len(e.body) = 1503
       /\ e.body = handlers[e.handler].response

(***************************************************************************)
(* Chunking (checked under SpecChunks).                                    *)
(***************************************************************************)

\* C28: with chunkSize 500 and overlap 100 the chunks of a non-empty text cover
\* it in order without a gap: each chunk is the text at its place, the first
\* starts at index 0, each next one starts at or before the end of the one
\* before it and not before its start, and the last ends at the end of the
\* text; the empty text has no chunks.
C28_ChunksCoverTheText ==
  split.done =>
    LET c == split.chunks
        L == Len(split.text)
    IN IF L = 0 THEN c = <<>>
       ELSE /\ Len(c) >= 1
            /\ c[1].from = 0
            /\ c[Len(c)].from + Len(c[Len(c)].text) = L
            /\ \A k \in 1..Len(c) :
                 c[k].text = SubSeq(split.text, c[k].from + 1, c[k].from + Len(c[k].text))
            /\ \A k \in 1..(Len(c) - 1) :
                 /\ c[k + 1].from <= c[k].from + Len(c[k].text)
                 /\ c[k + 1].from >= c[k].from
                 /\ c[k + 1].from + Len(c[k + 1].text) >= c[k].from + Len(c[k].text)

\* a text of several windows with sentence ends was split into four chunks or
\* more
C28_Witness ==
  /\ split.done /\ Len(split.chunks) >= 4
  /\ split.chunks[1].endIndex < ChunkSize
  /\ split.chunks[Len(split.chunks)].from + Len(split.chunks[Len(split.chunks)].text)
       = Len(split.text)

\* C29: every chunk except the last is at most chunkSize characters long, also
\* when its end was moved to the end of a sentence.
C29_ChunksWithinChunkSize ==
  split.done =>
    \A k \in 1..(Len(split.chunks) - 1) : Len(split.chunks[k].text) <= 500

\* a chunk that is not the last was cut at the end of a sentence, and another
\* one is exactly chunkSize long
C29_Witness ==
  /\ split.done
  /\ \E k \in 1..(Len(split.chunks) - 1) :
       /\ Len(split.chunks[k].text) < ChunkSize
       /\ Len(split.chunks[k].text) > ChunkSize - SentenceWindow
       /\ SubSeq(split.chunks[k].text, Len(split.chunks[k].text) - 1,
                 Len(split.chunks[k].text)) \in {". ", "?\n", "! ", ".\n"}
  /\ \E k \in 1..(Len(split.chunks) - 1) : Len(split.chunks[k].text) = ChunkSize

\* C30: of two consecutive chunks the second starts exactly overlap characters
\* before the end of the first, and when the first is at least overlap
\* characters long its last overlap characters are the first overlap
\* characters of the second.
C30_NextStartsOverlapBeforeEnd ==
  split.done =>
    \A k \in 1..(Len(split.chunks) - 1) :
      LET first == split.chunks[k]
          second == split.chunks[k + 1]
      IN /\ second.from = first.from + Len(first.text) - Overlap
         /\ Len(first.text) >= Overlap =>
              /\ Len(second.text) >= Overlap
              /\ SubSeq(first.text, Len(first.text) - Overlap + 1, Len(first.text))
                   = SubSeq(second.text, 1, Overlap)

\* a text shorter than the overlap: the second chunk was sliced at a negative
\* index and begins less than overlap characters before the end of the first
C30_Witness ==
  /\ split.done /\ Len(split.chunks) = 2
  /\ Len(split.text) = Overlap - 1
  /\ split.chunks[2].startIndex = -1
  /\ split.chunks[2].from = Len(split.text) - 1

\* C31: the final tail chunk is appended only when text remains after the last
\* window: a non-empty text no longer than chunkSize yields exactly one chunk
\* equal to the text, and no chunk lies wholly inside its predecessor.
C31_TailOnlyWhenTextRemains ==
  split.done =>
    /\ (split.text # "" /\ Len(split.text) <= ChunkSize
          => Len(split.chunks) = 1 /\ split.chunks[1].text = split.text)
    /\ \A k \in 2..Len(split.chunks) :
         ~( /\ split.chunks[k - 1].from <= split.chunks[k].from
            /\ split.chunks[k].from + Len(split.chunks[k].text)
                 <= split.chunks[k - 1].from + Len(split.chunks[k - 1].text) )

\* a text of one window has been split
C31_Witness ==
  /\ split.done
  /\ Len(split.text) = ChunkSize
  /\ Len(split.chunks) = 2
  /\ split.chunks[1].text = split.text
  /\ split.chunks[2].text = SubSeq(split.text, ChunkSize - Overlap + 1, ChunkSize)

\* C32: within one ingestion the point ids of distinct (page, chunk) pairs are
\* pairwise distinct, so when every batch succeeds the index holds as many
\* entries as chunks were embedded.
C32_IdsDistinctWithinIngestion ==
  /\ \A k, l \in 1..Len(upload.vectorRecords) :
       k # l => upload.vectorRecords[k].id # upload.vectorRecords[l].id
  /\ ( /\ upload.pc = "done"
       /\ upload.result.success
       /\ \A k \in 1..Len(upload.upserts) : upload.upserts[k].ok )
     => Cardinality(collection) = upload.successfulEmbeddings

\* an upload of a document with a page of more than ten chunks after the tenth
\* page has stored every batch
C32_Witness ==
  /\ upload.pc = "done"
  /\ upload.result.success
  /\ Len(upload.pages) > 10
  /\ \E k \in 1..Len(upload.vectorRecords) :
       upload.vectorRecords[k].page > 10 /\ upload.vectorRecords[k].chunk > 10
  /\ \A k \in 1..Len(upload.upserts) : upload.upserts[k].ok
  /\ Cardinality(collection) < upload.successfulEmbeddings

(***************************************************************************)
(* Closing notices against the sweep and the timers (checked under Spec).  *)
(***************************************************************************)

\* a closing notice was started for p and no inbound message has arrived since
\* its close completed: its send is in flight, or the conversation is closed
ClosingStarted(p) ==
  \/ \E s \in inflight : s.kind = "closing" /\ s.phone = p
  \/ conversations[p].closed

\* C33: once a closing notice has been started for a conversation, no step
\* starts an idle warning or another closing notice for it until an inbound
\* message arrives after the close has completed, whatever the order of the
\* sweep, the closing timers and the closing send in flight.
C33_NothingStartedAfterClosing ==
  [][ \A p \in Phones :
        ClosingStarted(p) =>
          /\ SendsOf(outbox', "automatic", p) = SendsOf(outbox, "automatic", p)
          /\ SendsOf(outbox', "closing", p) = SendsOf(outbox, "closing", p) ]_vars

\* a closing send is in flight for a conversation that an inbound message has
\* reset, at an instant at which the sweep is due
C33_Witness ==
  \E p \in Phones :
    /\ \E s \in inflight : s.kind = "closing" /\ s.phone = p
    /\ ~conversations[p].closed
    /\ ~conversations[p].inactivityMessageSent
    /\ now - conversations[p].lastActivity >= InactivityLimit
    /\ now >= nextSweep

(***************************************************************************)
(* The interim notice against the reply (checked under SpecWebhook).       *)
(***************************************************************************)

\* C34: a reply send of a request whose interim notice was started starts only
\* after the interim send has returned and the pause is over, so the two sends
\* are never in flight together; and no interim notice is started once the
\* generation of the reply has completed.
C34_InterimAndReplyNeverOverlap ==
  /\ [](\A h \in 1..MaxWebhooks :
          ~(handlers[h].thinking = "sending" /\ handlers[h].pc = "sending"))
  /\ [][ \A h \in 1..MaxWebhooks :
           /\ ( /\ SendsBy(outbox', "reply", h) > SendsBy(outbox, "reply", h)
                /\ SendsBy(outbox, "thinking", h) > 0 )
              => (handlers[h].thinking = "sent" /\ handlers[h].pc = "pausing")
           /\ SendsBy(outbox', "thinking", h) > SendsBy(outbox, "thinking", h)
              => handlers[h].pc = "generating" ]_vars

\* the reply send and the interim send of one request are both in flight
C34_Witness ==
  \E h \in 1..MaxWebhooks :
    /\ handlers[h].thinking = "sending"
    /\ ~handlers[h].thinkingMessageSent
    /\ handlers[h].pc = "sending"
    /\ SendsBy(outbox, "thinking", h) = 1
    /\ SendsBy(outbox, "reply", h) = 1

(***************************************************************************)
(* Outbound entries against the result of the send (checked under Spec).   *)
(***************************************************************************)

\* C35: every outbound message is appended to its conversation as a "sent"
\* entry when its send returns, whether sendTwilioMessage returned true or
\* false: the reply of the webhook, the operator message, the idle warning
\* and the closing notice; the closing notice also closes the conversation,
\* and POST /api/send answers with its success status.
C35_SentEntryWhateverTheResult ==
  [][ /\ \A s \in inflight :
           s \notin inflight' =>
             /\ conversations'[s.phone].messages
                  = Append(conversations[s.phone].messages,
                           Message("sent",
                                   IF s.kind = "automatic" THEN AutomaticMessage
                                   ELSE IF s.kind = "closing" THEN ClosingMessage
                                   ELSE s.message,
                                   s.kind # "operator"))
             /\ delivery'.kind = s.kind
             /\ s.kind = "closing" => conversations'[s.phone].closed
             /\ s.kind = "operator" => delivery'.status = 200
      /\ \A h \in 1..NumHandlers :
           (handlers[h].pc = "sending" /\ handlers'[h].pc = "done") =>
             /\ conversations'[handlers[h].from].messages
                  = Append(conversations[handlers[h].from].messages,
                           Message("sent", handlers[h].response, FALSE))
             /\ delivery'.kind = "reply" ]_vars

\* a closing send has returned false: the notice is in the conversation and
\* the conversation is closed
C35_Witness ==
  \E p \in Phones :
    /\ delivery = Delivery("closing", p, FALSE, 0)
    /\ conversations[p].closed
    /\ conversations[p].closedAt = now
    /\ Len(conversations[p].messages) > 0
    /\ conversations[p].messages[Len(conversations[p].messages)].content = ClosingMessage
    /\ conversations[p].messages[Len(conversations[p].messages)].direction = "sent"

(***************************************************************************)
(* The temporary file against the response (checked under SpecIndex).      *)
(***************************************************************************)

\* C36: when POST /api/upload-pdf sends its response, the temporary file that
\* was stored for the request has been deleted, on every path of the endpoint:
\* after handleFileUpload returned, and on the 400 response for a request
\* without organizationId.
C36_NoTempFileWhenAnswered ==
  upload.pc \in {"done", "rejected"} => ~upload.tempFile

\* the endpoint has answered 400 to a request that carried a file but no
\* organizationId
C36_Witness ==
  /\ upload.pc = "rejected"
  /\ upload.result.message = NoOrganizationMessage
  /\ upload.tempFile
  /\ upload.unlinks = 0

(***************************************************************************)
(* Termination of the chunk loop (checked under SpecChunkLoop).            *)
(***************************************************************************)

\* the least distance between the starts of two windows: a window cut at the
\* first sentence end its last 100 characters can hold, less the overlap
LeastAdvance == ChunkSize - SentenceWindow + 2 - Overlap

\* C37 (as written): splitIntoChunks terminates for every text with chunkSize
\* 500 and overlap 100: every turn of the loop moves the window start strictly
\* forward, and the loop ends through the tail branch after finitely many
\* chunks.
C37_EveryTurnMovesForward ==
  /\ <>split.done
  /\ [][split'.chunks # split.chunks => split'.startIndex > split.startIndex]_vars
  /\ []((split.done /\ split.text # "") => split.exit = "tail")

\* C37: splitIntoChunks terminates for every text with chunkSize 500 and
\* overlap 100: every turn of the loop moves the window start strictly forward,
\* by at least LeastAdvance when the loop goes on, except the only turn of a
\* text of at most overlap characters, which leaves the start at the length
\* of the text less the overlap; a non-empty text ends the loop through the
\* tail branch and an empty one never enters it; and the chunks are at most
\* one per LeastAdvance characters plus two.
C37_TerminatesThroughTail ==
  /\ <>split.done
  /\ [][ split'.chunks # split.chunks =>
           IF Len(split.text) <= Overlap
           THEN split'.done /\ split'.startIndex = Len(split.text) - Overlap
           ELSE /\ split'.startIndex > split.startIndex
                /\ ~split'.done => split'.startIndex >= split.startIndex + LeastAdvance ]_vars
  /\ [](split.done => split.exit = (IF split.text = "" THEN "empty" ELSE "tail"))
  /\ [](Len(split.chunks) <= Len(split.text) \div LeastAdvance + 2)

\* the loop has ended on a text of less than overlap characters, with its
\* start moved back before the start of the text
C37_Witness ==
  /\ split.done
  /\ split.exit = "tail"
  /\ split.text # ""
  /\ Len(split.text) < Overlap
  /\ split.startIndex < 0
  /\ Len(split.chunks) = 2

====
